---- MODULE Spec2Model ----
(***************************************************************************)
(* schedule-mcp: the calendar tools' interval logic, the overdue-task      *)
(* reconciler, the week boundaries and the tool boundary.                  *)
(*                                                                         *)
(* The Google Calendar provider is a list of events (orderBy=startTime).   *)
(* find_free_slots (clients/gcal.py) and schedule_find_conflicts           *)
(* (tools/schedule.py) read that list, parse it and walk it.               *)
(*                                                                         *)
(* Time is the local wall clock of LOCAL_TIMEZONE in minutes since 00:00   *)
(* of the model's date: every datetime the two functions compare or add    *)
(* carries the same tzinfo, and Python compares and adds such values on    *)
(* their wall-clock fields.                                                *)
(***************************************************************************)
EXTENDS Integers, Sequences, FiniteSets, TLC

VARIABLES calendar, response, clock, tasks, overdue_call, fault, provider_log, server,
          appointments, pending

vars ==
    <<calendar, response, clock, tasks, overdue_call, fault, provider_log, server,
      appointments, pending>>

\* what the calendar tools leave alone
notion_side == <<clock, tasks, overdue_call, appointments>>

\* the providers' condition, the calls that reached them, the server process
\* and the operations under way
tool_side == <<fault, provider_log, server, pending>>

(***************************************************************************)
(* Bounds of the model.                                                    *)
(***************************************************************************)
\* the most events the provider holds in the free-slot specification
MaxBusy == 3

\* the most events the provider holds in the conflict specification
MaxEvents == 3

\* the most tasks the Notion Tasks database holds
MaxTasks == 2

(***************************************************************************)
(* Values of an event's start / end as the provider hands them over.       *)
(*   kind "ok"        a string datetime.fromisoformat parses               *)
(*   kind "malformed" a string it rejects with ValueError                  *)
(*   kind "missing"   neither dateTime nor date: .get() yields None and    *)
(*                    fromisoformat(None) raises TypeError                 *)
(***************************************************************************)
At(h, m) == h * 60 + m

Ok(t) == [kind |-> "ok", t |-> t]

MalformedValue == [kind |-> "malformed", t |-> 0]

MissingValue == [kind |-> "missing", t |-> 0]

\* ev.get("summary", "(no title)"): an event without summary
NoSummary == "none"

Event(summary, start, end) == [summary |-> summary, start |-> start, end |-> end]

(***************************************************************************)
(* The events the specifications draw from.                                *)
(***************************************************************************)
\* hours on which the events of the free-slot specification start and end
SlotHours == {8, 9, 10, 20, 21}

SlotEvents ==
    {Event("A", Ok(At(s, 0)), Ok(At(e, 0))) : s \in SlotHours, e \in SlotHours}
    \cup {Event("A", MalformedValue, MissingValue), Event("A", Ok(At(9, 0)), MissingValue)}

\* requests of the free-slot specification
EarliestHours == {8, 10}

LatestHours == {8, 20, 24}

Durations == {60, 120}

\* starts and ends of the events of the conflict specification
ConflictStarts == {At(9, 0), At(10, 0), At(10, 5), At(10, 10), At(10, 30)}

ConflictEnds == {At(10, 0), At(11, 0), At(11, 30), At(14, 0)}

ConflictEvents ==
    {Event("A", Ok(s), Ok(e)) : s \in ConflictStarts, e \in ConflictEnds}
    \cup {Event("B", Ok(At(9, 0)), Ok(At(14, 0))),
          Event("B", Ok(At(10, 0)), Ok(At(11, 0))),
          Event("B", Ok(At(10, 5)), Ok(At(11, 0))),
          Event("B", Ok(At(10, 10)), Ok(At(11, 0))),
          Event("B", Ok(At(10, 30)), Ok(At(11, 30))),
          Event("B", Ok(At(11, 0)), Ok(At(11, 30))),
          Event("A", Ok(At(9, 0)), Ok(At(12, 0))),
          Event("B", Ok(At(9, 30)), Ok(At(10, 0))),
          Event("C", Ok(At(11, 0)), Ok(At(11, 30))),
          Event(NoSummary, Ok(At(9, 0)), Ok(At(10, 0))),
          Event("A", MalformedValue, Ok(At(11, 0))),
          Event("A", Ok(At(9, 0)), MissingValue)}

(***************************************************************************)
(* Helpers on sequences.                                                   *)
(***************************************************************************)
Range(q) == {q[i] : i \in 1..Len(q)}

RemoveAt(q, i) == [j \in 1..(Len(q) - 1) |-> IF j < i THEN q[j] ELSE q[j + 1]]

InsertAt(q, i, x) ==
    [j \in 1..(Len(q) + 1) |-> IF j < i THEN q[j] ELSE IF j = i THEN x ELSE q[j - 1]]

Min(a, b) == IF a <= b THEN a ELSE b

(***************************************************************************)
(* The provider: events().list(orderBy="startTime") hands the events over  *)
(* ordered by start; the order of events with equal starts, and the place  *)
(* of an event whose start cannot be read, are not defined.                *)
(***************************************************************************)
StartKey(ev) == IF ev.start.kind = "ok" THEN ev.start.t ELSE At(48, 0)

OrderedByStart(q) == \A i \in 1..(Len(q) - 1) : StartKey(q[i]) <= StartKey(q[i + 1])

get_events(cal) == cal

(***************************************************************************)
(* datetime.isoformat() / datetime.fromisoformat() on minute values:       *)
(* the text carries day, hour and minute.                                  *)
(***************************************************************************)
isoformat(t) == [day |-> t \div 1440, hour |-> (t % 1440) \div 60, minute |-> t % 60]

fromisoformat(x) == x.day * 1440 + x.hour * 60 + x.minute

(***************************************************************************)
(* find_free_slots, clients/gcal.py                                        *)
(***************************************************************************)
\* datetime.replace(hour=h) raises ValueError unless 0 <= h <= 23
HourAccepted(h) == h \in 0..23

DayAt(h) == At(h, 0)

\* the try block of the parse loop: start is parsed before end
ParseRaises(ev) ==
    \/ ev.start.kind = "missing"
    \/ ev.start.kind = "ok" /\ ev.end.kind = "missing"

AnyParseRaises(events) == \E i \in 1..Len(events) : ParseRaises(events[i])

Parses(ev) == ev.start.kind = "ok" /\ ev.end.kind = "ok"

RECURSIVE BuildBusy(_)
BuildBusy(events) ==
    IF events = <<>> THEN <<>>
    ELSE IF Parses(Head(events))
         THEN <<<<Head(events).start.t, Head(events).end.t>>>> \o BuildBusy(Tail(events))
         ELSE BuildBusy(Tail(events))

\* tuple comparison of (start, end)
BusyLess(a, b) == a[1] < b[1] \/ (a[1] = b[1] /\ a[2] < b[2])

RECURSIVE InsertBusy(_, _)
InsertBusy(sorted, x) ==
    IF sorted = <<>> THEN <<x>>
    ELSE IF BusyLess(x, Head(sorted)) THEN <<x>> \o sorted
         ELSE <<Head(sorted)>> \o InsertBusy(Tail(sorted), x)

RECURSIVE SortBusy(_)
SortBusy(busy) ==
    IF busy = <<>> THEN <<>>
    ELSE InsertBusy(SortBusy(SubSeq(busy, 1, Len(busy) - 1)), busy[Len(busy)])

\* a slot that ends where it starts
SlotDictNoDelta(cursor, slot_delta) ==
    [start |-> isoformat(cursor), end |-> isoformat(cursor)]

SlotDict(cursor, slot_delta) ==
    [start |-> isoformat(cursor), end |-> isoformat(cursor + slot_delta)]

FitsBefore(cursor, slot_delta, busy_start) == cursor + slot_delta <= busy_start

\* a cursor that follows every busy window, backwards too
AdvanceCursorAlways(cursor, busy_end) == busy_end

AdvanceCursor(cursor, busy_end) == IF busy_end > cursor THEN busy_end ELSE cursor

RECURSIVE WalkBusy(_, _, _, _)
WalkBusy(busy, cursor, slot_delta, free_slots) ==
    IF busy = <<>> THEN [cursor |-> cursor, free_slots |-> free_slots]
    ELSE LET busy_start == Head(busy)[1]
             busy_end == Head(busy)[2]
             emitted == IF FitsBefore(cursor, slot_delta, busy_start)
                        THEN Append(free_slots, SlotDict(cursor, slot_delta))
                        ELSE free_slots
         IN WalkBusy(Tail(busy), AdvanceCursor(cursor, busy_end), slot_delta, emitted)

FinalSlot(walk, slot_delta, day_end) ==
    IF walk.cursor + slot_delta <= day_end
    THEN Append(walk.free_slots, SlotDict(walk.cursor, slot_delta))
    ELSE walk.free_slots

\* raised |-> TRUE: an exception leaves the function
find_free_slots(cal, duration_minutes, earliest_hour, latest_hour) ==
    IF ~HourAccepted(earliest_hour) \/ ~HourAccepted(latest_hour)
    THEN [raised |-> TRUE, slots |-> <<>>]
    ELSE LET day_start == DayAt(earliest_hour)
             day_end == DayAt(latest_hour)
             events == get_events(cal)
         IN IF AnyParseRaises(events)
            THEN [raised |-> TRUE, slots |-> <<>>]
            ELSE LET busy == SortBusy(BuildBusy(events))
                     walk == WalkBusy(busy, day_start, duration_minutes, <<>>)
                 IN [raised |-> FALSE,
                     slots |-> FinalSlot(walk, duration_minutes, day_end)]

\* gcal_find_free_slots, tools/calendar.py: the tool's answer
gcal_find_free_slots(cal, req) ==
    LET r == find_free_slots(cal, req.duration_minutes, req.earliest_hour, req.latest_hour)
    IN IF r.raised
       THEN [tool |-> "gcal_find_free_slots", req |-> req, kind |-> "error",
             slots |-> <<>>, count |-> 0]
       ELSE IF r.slots = <<>>
            THEN [tool |-> "gcal_find_free_slots", req |-> req, kind |-> "message",
                  slots |-> <<>>, count |-> 0]
            ELSE [tool |-> "gcal_find_free_slots", req |-> req, kind |-> "slots",
                  slots |-> r.slots, count |-> Len(r.slots)]

(***************************************************************************)
(* schedule_find_conflicts, tools/schedule.py                              *)
(***************************************************************************)
\* ev.get("summary", "(no title)")
Title(ev) == IF ev.summary = NoSummary THEN "(no title)" ELSE ev.summary

\* the order of the titles as Python compares strings
TitleRank(title) == CASE title = "(no title)" -> 0 [] title = "A" -> 1 [] title = "B" -> 2
                       [] title = "C" -> 3

RECURSIVE BuildParsed(_)
BuildParsed(events) ==
    IF events = <<>> THEN <<>>
    ELSE IF Parses(Head(events))
         THEN <<[s |-> Head(events).start.t, e |-> Head(events).end.t,
                 title |-> Title(Head(events))]>> \o BuildParsed(Tail(events))
         ELSE BuildParsed(Tail(events))

\* tuple comparison of (s, e, title, id); the id only orders events that agree
\* on everything the result shows
ParsedLess(a, b) ==
    \/ a.s < b.s
    \/ a.s = b.s /\ a.e < b.e
    \/ a.s = b.s /\ a.e = b.e /\ TitleRank(a.title) < TitleRank(b.title)

RECURSIVE InsertParsed(_, _)
InsertParsed(sorted, x) ==
    IF sorted = <<>> THEN <<x>>
    ELSE IF ParsedLess(x, Head(sorted)) THEN <<x>> \o sorted
         ELSE <<Head(sorted)>> \o InsertParsed(Tail(sorted), x)

RECURSIVE SortParsed(_)
SortParsed(parsed) ==
    IF parsed = <<>> THEN <<>>
    ELSE InsertParsed(SortParsed(SubSeq(parsed, 1, Len(parsed) - 1)), parsed[Len(parsed)])

\* timedelta.total_seconds() of a difference of minute values
total_seconds(minutes) == minutes * 60

TightGapSeconds == 600

LongEventHours == 4

\* round(n / d, 1) in tenths, for n >= 0: to the nearest tenth, a tie to the
\* even tenth
RoundTenths(n, d) ==
    LET q == (10 * n) \div d
        r == (10 * n) % d
    IN IF 2 * r < d THEN q
       ELSE IF 2 * r > d THEN q + 1
       ELSE IF q % 2 = 0 THEN q ELSE q + 1

\* an event of 4 hours counts as long too
IsLongEventFromFour(s1, e1) == total_seconds(e1 - s1) >= LongEventHours * 3600

IsLongEvent(s1, e1) == total_seconds(e1 - s1) > LongEventHours * 3600

LongEntry(p) ==
    [event |-> p.title, start |-> isoformat(p.s), end |-> isoformat(p.e),
     duration_hours |-> RoundTenths(total_seconds(p.e - p.s), 3600)]

\* touching events count as overlapping
IsOverlapOrTouch(e1, s2) == s2 <= e1

IsOverlap(e1, s2) == s2 < e1

OverlapEntry(p1, p2) ==
    [event_1 |-> p1.title, event_2 |-> p2.title,
     overlap_start |-> isoformat(p2.s), overlap_end |-> isoformat(Min(p1.e, p2.e))]

\* a gap of exactly ten minutes counts as tight
IsTightUpToTen(e1, s2) == total_seconds(s2 - e1) <= TightGapSeconds

IsTight(e1, s2) == total_seconds(s2 - e1) < TightGapSeconds

TightEntry(p1, p2) ==
    [event_1 |-> p1.title, event_1_end |-> isoformat(p1.e),
     event_2 |-> p2.title, event_2_start |-> isoformat(p2.s),
     gap_minutes |-> RoundTenths(total_seconds(p2.s - p1.e), 60)]

\* the event compared with parsed[i] is the last one of the list
NextEventLast(parsed, i) == parsed[Len(parsed)]

\* evt_b = parsed[i + 1]
NextEvent(parsed, i) == parsed[i + 1]

RECURSIVE WalkParsed(_, _, _)
WalkParsed(parsed, i, acc) ==
    IF i > Len(parsed) THEN acc
    ELSE LET p1 == parsed[i]
             long == IF IsLongEvent(p1.s, p1.e)
                     THEN Append(acc.long_events, LongEntry(p1))
                     ELSE acc.long_events
         IN IF i + 1 > Len(parsed)
            THEN WalkParsed(parsed, i + 1, [acc EXCEPT !.long_events = long])
            ELSE LET p2 == NextEvent(parsed, i)
                 IN IF IsOverlap(p1.e, p2.s)
                    THEN WalkParsed(parsed, i + 1,
                             [acc EXCEPT !.long_events = long,
                                         !.overlaps = Append(@, OverlapEntry(p1, p2))])
                    ELSE IF IsTight(p1.e, p2.s)
                    THEN WalkParsed(parsed, i + 1,
                             [acc EXCEPT !.long_events = long,
                                         !.tight_transitions = Append(@, TightEntry(p1, p2))])
                    ELSE WalkParsed(parsed, i + 1, [acc EXCEPT !.long_events = long])

\* all_clear looks at the overlaps alone
AllClearOverlapsOnly(overlaps, tight) == overlaps = <<>>

\* "all_clear": not overlaps and not tight
AllClear(overlaps, tight) == overlaps = <<>> /\ tight = <<>>

\* the tool's answer; every exception ends as the error text
schedule_find_conflicts(cal) ==
    LET events == get_events(cal)
    IN IF AnyParseRaises(events)
       THEN [tool |-> "schedule_find_conflicts", kind |-> "error",
             overlaps |-> <<>>, tight_transitions |-> <<>>, long_events |-> <<>>,
             all_clear |-> FALSE]
       ELSE LET parsed == SortParsed(BuildParsed(events))
                found == WalkParsed(parsed, 1,
                             [overlaps |-> <<>>, tight_transitions |-> <<>>,
                              long_events |-> <<>>])
            IN [tool |-> "schedule_find_conflicts", kind |-> "json",
                overlaps |-> found.overlaps,
                tight_transitions |-> found.tight_transitions,
                long_events |-> found.long_events,
                all_clear |-> AllClear(found.overlaps, found.tight_transitions)]

(***************************************************************************)
(* Dates. A date is its day number, 1 being 2025-12-01, a Monday;          *)
(* date.isoformat() writes it as year, month and day, and ISO date texts   *)
(* compare as Python compares strings, field by field from the left.       *)
(***************************************************************************)
MonthTable ==
    <<[year |-> 2025, month |-> 12, days |-> 31],
      [year |-> 2026, month |-> 1, days |-> 31],
      [year |-> 2026, month |-> 2, days |-> 28],
      [year |-> 2026, month |-> 3, days |-> 31]>>

RECURSIVE DateFrom(_, _)
DateFrom(n, m) ==
    IF n <= MonthTable[m].days
    THEN [year |-> MonthTable[m].year, month |-> MonthTable[m].month, day |-> n]
    ELSE DateFrom(n - MonthTable[m].days, m + 1)

\* date.isoformat()
date_isoformat(n) == DateFrom(n, 1)

RECURSIVE DaysBefore(_)
DaysBefore(m) == IF m = 1 THEN 0 ELSE DaysBefore(m - 1) + MonthTable[m - 1].days

\* date.fromisoformat()
date_fromisoformat(d) ==
    LET m == CHOOSE k \in 1..Len(MonthTable) :
                 MonthTable[k].year = d.year /\ MonthTable[k].month = d.month
    IN DaysBefore(m) + d.day

\* date.weekday(): Monday is 0
weekday(n) == (n - 1) % 7

\* a < b on two ISO date texts
IsoLess(a, b) ==
    \/ a.year < b.year
    \/ a.year = b.year /\ a.month < b.month
    \/ a.year = b.year /\ a.month = b.month /\ a.day < b.day

(***************************************************************************)
(* The Notion Tasks database and get_overdue_tasks, clients/notion.py      *)
(***************************************************************************)
\* a task without status / a query without status filter: None
NoStatus == "none"

\* a task without due date / a query without date filter: None
NoDueDate == [year |-> 0, month |-> 0, day |-> 0]

\* _simplify_task
Task(notion_id, status, due_date) ==
    [notion_id |-> notion_id, status |-> status, due_date |-> due_date]

\* "sorts": Due Date ascending; the place of a task without due date and the
\* order of tasks due the same day are the provider's choice
OrderedByDue(q) ==
    \A i \in 1..Len(q), j \in 1..Len(q) :
        (i < j /\ q[i].due_date # NoDueDate /\ q[j].due_date # NoDueDate)
            => ~IsoLess(q[j].due_date, q[i].due_date)

\* the filters of get_tasks, each applied when its argument is given
MatchesFilters(t, status, due_before, due_after) ==
    /\ status # NoStatus => t.status = status
    /\ due_before # NoDueDate =>
          (t.due_date # NoDueDate /\ ~IsoLess(due_before, t.due_date))
    /\ due_after # NoDueDate =>
          (t.due_date # NoDueDate /\ ~IsoLess(t.due_date, due_after))

RECURSIVE get_tasks(_, _, _, _)
get_tasks(db, status, due_before, due_after) ==
    IF db = <<>> THEN <<>>
    ELSE IF MatchesFilters(Head(db), status, due_before, due_after)
         THEN <<Head(db)>> \o get_tasks(Tail(db), status, due_before, due_after)
         ELSE get_tasks(Tail(db), status, due_before, due_after)

\* a task due today counts as past due too
IsPastDueOrToday(t, today) ==
    /\ t.status \notin {"Done", "Archived", "Overdue"}
    /\ t.due_date # NoDueDate
    /\ ~IsoLess(today, t.due_date)

\* the test of the list comprehension over overdue_by_date
IsPastDue(t, today) ==
    /\ t.status \notin {"Done", "Archived", "Overdue"}
    /\ t.due_date # NoDueDate
    /\ IsoLess(t.due_date, today)

RECURSIVE FilterPastDue(_, _)
FilterPastDue(list, today) ==
    IF list = <<>> THEN <<>>
    ELSE IF IsPastDue(Head(list), today)
         THEN <<Head(list)>> \o FilterPastDue(Tail(list), today)
         ELSE FilterPastDue(Tail(list), today)

\* every task is appended, seen or not
NotSeenAlways(task, seen) == TRUE

\* if task["notion_id"] not in seen
NotSeen(task, seen) == task.notion_id \notin seen

RECURSIVE Combine(_, _, _)
Combine(list, seen, combined) ==
    IF list = <<>> THEN combined
    ELSE IF NotSeen(Head(list), seen)
         THEN Combine(Tail(list), seen \cup {Head(list).notion_id},
                      Append(combined, Head(list)))
         ELSE Combine(Tail(list), seen, combined)

\* the first query of get_overdue_tasks
overdue_by_status(db) == get_tasks(db, "Overdue", NoDueDate, NoDueDate)

\* its second query, filtered
overdue_by_date(db, today) == FilterPastDue(get_tasks(db, NoStatus, today, NoDueDate), today)

\* notion_get_overdue_tasks, tools/tasks.py: the tool's answer
notion_get_overdue_tasks(combined) ==
    IF combined = <<>>
    THEN [tool |-> "notion_get_overdue_tasks", kind |-> "message",
          tasks |-> <<>>, count |-> 0]
    ELSE [tool |-> "notion_get_overdue_tasks", kind |-> "json",
          tasks |-> combined, count |-> Len(combined)]

(***************************************************************************)
(* schedule_week_overview, tools/schedule.py                               *)
(***************************************************************************)
\* a params.date that datetime.fromisoformat rejects
MalformedDate == [year |-> 0, month |-> 0, day |-> 1]

\* the week starts on the Sunday on or before the anchor
SundayBefore(anchor) == anchor - ((weekday(anchor) + 1) % 7)

\* monday = anchor - timedelta(days=anchor.weekday())
MondayOf(anchor) == anchor - weekday(anchor)

\* sunday = monday + timedelta(days=6)
SundayOf(monday) == monday + 6

\* the tool's answer; date = NoDueDate: params.date not given, the anchor is now
schedule_week_overview(date, now, db) ==
    IF date = MalformedDate
    THEN [tool |-> "schedule_week_overview", date |-> date, kind |-> "error",
          week_range |-> [start |-> NoDueDate, end |-> NoDueDate],
          tasks_due_this_week |-> <<>>, overdue_tasks |-> <<>>]
    ELSE LET anchor == IF date # NoDueDate THEN date_fromisoformat(date) ELSE now
             monday == MondayOf(anchor)
             sunday == SundayOf(monday)
             start_str == date_isoformat(monday)
             end_str == date_isoformat(sunday)
             today == date_isoformat(now)
         IN [tool |-> "schedule_week_overview", date |-> date, kind |-> "json",
             week_range |-> [start |-> start_str, end |-> end_str],
             tasks_due_this_week |-> get_tasks(db, NoStatus, end_str, start_str),
             overdue_tasks |-> Combine(overdue_by_status(db) \o overdue_by_date(db, today),
                                       {}, <<>>)]

(***************************************************************************)
(* The tool boundary: tools/*.py. A tool is called with its request        *)
(* checked against its Input model; its body runs the provider calls of    *)
(* the client function inside try / except Exception.                      *)
(* A text is the sequence of its parts.                                    *)
(***************************************************************************)
Tools ==
    {"gcal_list_calendars", "gcal_get_events", "gcal_create_event", "gcal_update_event",
     "gcal_delete_event", "gcal_find_free_slots",
     "notion_get_appointments", "notion_create_appointment", "notion_update_appointment",
     "notion_get_appointment_by_gcal_id",
     "notion_get_tasks", "notion_get_overdue_tasks", "notion_create_task",
     "notion_update_task",
     "schedule_week_overview", "schedule_task_block", "schedule_find_conflicts"}

\* Field(...): the fields without default
RequiredFields(tool) ==
    CASE tool = "gcal_get_events" -> {"start_date", "end_date"}
      [] tool = "gcal_create_event" -> {"title", "start", "end"}
      [] tool = "gcal_update_event" -> {"event_id"}
      [] tool = "gcal_delete_event" -> {"event_id"}
      [] tool = "gcal_find_free_slots" -> {"date", "duration_minutes"}
      [] tool = "notion_create_appointment" -> {"title", "start", "end"}
      [] tool = "notion_update_appointment" -> {"notion_id"}
      [] tool = "notion_get_appointment_by_gcal_id" -> {"gcal_event_id"}
      [] tool = "notion_create_task" -> {"name"}
      [] tool = "notion_update_task" -> {"notion_id"}
      [] tool = "schedule_task_block" ->
            {"task_notion_id", "task_name", "task_url", "start", "end"}
      [] tool = "schedule_find_conflicts" -> {"start_date", "end_date"}
      [] OTHER -> {}

\* the fields with a default
OptionalFields(tool) ==
    CASE tool = "gcal_get_events" -> {"calendar_id", "max_results"}
      [] tool = "gcal_create_event" -> {"description", "location", "calendar_id"}
      [] tool = "gcal_update_event" ->
            {"calendar_id", "title", "start", "end", "description", "location"}
      [] tool = "gcal_delete_event" -> {"calendar_id"}
      [] tool = "gcal_find_free_slots" -> {"earliest_hour", "latest_hour", "calendar_id"}
      [] tool = "notion_get_appointments" ->
            {"start_date", "end_date", "appointment_type", "status"}
      [] tool = "notion_create_appointment" ->
            {"appointment_type", "notes", "gcal_event_id", "gcal_series_id", "recurring"}
      [] tool = "notion_update_appointment" ->
            {"title", "start", "end", "appointment_type", "status", "canceled", "notes",
             "gcal_event_id", "gcal_series_id", "recurring"}
      [] tool = "notion_get_tasks" -> {"status", "due_before", "due_after"}
      [] tool = "notion_create_task" -> {"due_date", "status"}
      [] tool = "notion_update_task" -> {"name", "status", "due_date"}
      [] tool = "schedule_week_overview" -> {"date"}
      [] tool = "schedule_task_block" -> {"calendar_id"}
      [] tool = "schedule_find_conflicts" -> {"calendar_id"}
      [] OTHER -> {}

\* the tools declared with a params model; the others take no argument
HasInputModel(tool) == tool \notin {"gcal_list_calendars", "notion_get_overdue_tasks"}

\* every request is let through
ValidatesAlways(tool, req) == TRUE

\* the Input model: the required fields, extra="forbid", ge / le
Validates(tool, req) ==
    /\ RequiredFields(tool) \subseteq req.given
    /\ req.given \subseteq (RequiredFields(tool) \cup OptionalFields(tool))
    /\ tool = "gcal_find_free_slots" =>
          /\ req.numbers.duration_minutes \in 15..480
          /\ req.numbers.earliest_hour \in 0..23
          /\ req.numbers.latest_hour \in 1..24
    /\ tool = "gcal_get_events" => req.numbers.max_results \in 1..200

Call(provider, op) == [provider |-> provider, op |-> op]

\* every body lists the events and then deletes one
ProviderCallsDeleting(tool) ==
    <<Call("calendar", "events.list"), Call("calendar", "events.delete")>>

\* annotations={"readOnlyHint": True, ...} of the tool's registration
readOnlyHint(tool) ==
    tool \in {"gcal_list_calendars", "gcal_get_events", "gcal_find_free_slots",
              "notion_get_appointments", "notion_get_appointment_by_gcal_id",
              "notion_get_tasks", "notion_get_overdue_tasks",
              "schedule_week_overview", "schedule_find_conflicts"}

\* the provider calls of the client functions a tool's body runs, in order
ProviderCalls(tool) ==
    CASE tool = "gcal_list_calendars" -> <<Call("calendar", "calendarList.list")>>
      [] tool = "gcal_get_events" -> <<Call("calendar", "events.list")>>
      [] tool = "gcal_create_event" -> <<Call("calendar", "events.insert")>>
      [] tool = "gcal_update_event" ->
            <<Call("calendar", "events.get"), Call("calendar", "events.update")>>
      [] tool = "gcal_delete_event" -> <<Call("calendar", "events.delete")>>
      [] tool = "gcal_find_free_slots" -> <<Call("calendar", "events.list")>>
      [] tool = "notion_get_appointments" -> <<Call("notion", "data_sources.query")>>
      [] tool = "notion_create_appointment" -> <<Call("notion", "pages.create")>>
      [] tool = "notion_update_appointment" -> <<Call("notion", "pages.update")>>
      [] tool = "notion_get_appointment_by_gcal_id" ->
            <<Call("notion", "data_sources.query")>>
      [] tool = "notion_get_tasks" -> <<Call("notion", "data_sources.query")>>
      [] tool = "notion_get_overdue_tasks" ->
            <<Call("notion", "data_sources.query"), Call("notion", "data_sources.query")>>
      [] tool = "notion_create_task" -> <<Call("notion", "pages.create")>>
      [] tool = "notion_update_task" -> <<Call("notion", "pages.update")>>
      [] tool = "schedule_week_overview" ->
            <<Call("calendar", "events.list"), Call("notion", "data_sources.query"),
              Call("notion", "data_sources.query"), Call("notion", "data_sources.query"),
              Call("notion", "data_sources.query")>>
      [] tool = "schedule_task_block" -> <<Call("calendar", "events.insert")>>
      [] tool = "schedule_find_conflicts" -> <<Call("calendar", "events.list")>>

\* the text before the exception's in the except branch
ErrorPrefix(tool) ==
    CASE tool = "gcal_list_calendars" -> "Error listing calendars: "
      [] tool = "gcal_get_events" -> "Error fetching events: "
      [] tool = "gcal_create_event" -> "Error creating event: "
      [] tool = "gcal_update_event" -> "Error updating event: "
      [] tool = "gcal_delete_event" -> "Error deleting event: "
      [] tool = "gcal_find_free_slots" -> "Error finding free slots: "
      [] tool = "notion_get_appointments" -> "Error fetching appointments: "
      [] tool = "notion_create_appointment" -> "Error creating appointment: "
      [] tool = "notion_update_appointment" -> "Error updating appointment: "
      [] tool = "notion_get_appointment_by_gcal_id" -> "Error looking up appointment: "
      [] tool = "notion_get_tasks" -> "Error fetching tasks: "
      [] tool = "notion_get_overdue_tasks" -> "Error fetching overdue tasks: "
      [] tool = "notion_create_task" -> "Error creating task: "
      [] tool = "notion_update_task" -> "Error updating task: "
      [] tool = "schedule_week_overview" -> "Error building week overview: "
      [] tool = "schedule_task_block" -> "Error scheduling task block: "
      [] tool = "schedule_find_conflicts" -> "Error checking for conflicts: "

\* a provider's condition: the exception its next call ends in, if any
Failure(provider, exc, code) == [provider |-> provider, exc |-> exc, code |-> code]

NoFault == Failure("none", "none", "none")

\* datetime.replace(hour=24)
HourError == Failure("none", "ValueError", "hour must be in 0..23")

\* str(e)
str(e) ==
    CASE e.exc = "HttpError" -> <<"HttpError ", e.code>>
      [] e.exc = "APIResponseError" -> <<"APIResponseError ", e.code>>
      [] e.exc = "ConnectionError" -> <<"Connection refused">>
      [] e.exc = "FileNotFoundError" -> <<"Google credentials file not found">>
      [] e.exc = "EnvironmentError" -> <<"NOTION_TOKEN environment variable is not set.">>
      [] e.exc = "ValueError" -> <<e.code>>

\* _handle_http_error, clients/gcal.py
handle_http_error(e) ==
    CASE e.code = "404" -> <<"Error: Calendar event not found. Check the event ID.">>
      [] e.code = "403" ->
            <<"Error: Permission denied. Ensure the Calendar API is enabled and OAuth scopes include calendar write.">>
      [] e.code = "409" -> <<"Error: Conflict - this event may already exist.">>
      [] e.code = "429" ->
            <<"Error: Google Calendar API rate limit hit. Wait a moment and retry.">>
      [] OTHER -> <<"Error: Google Calendar API error ", e.code, ": ">> \o str(e)

\* _handle_notion_error, clients/notion.py
handle_notion_error(e) ==
    CASE e.code = "object_not_found" ->
            <<"Error: Notion page or database not found. Check that the integration has access.">>
      [] e.code = "unauthorized" -> <<"Error: Notion token is invalid or expired.">>
      [] e.code = "validation_error" -> <<"Error: Invalid data sent to Notion - ">> \o str(e)
      [] e.code = "rate_limited" -> <<"Error: Notion rate limit hit. Wait a moment and retry.">>
      [] OTHER -> <<"Error: Notion API error (", e.code, "): ">> \o str(e)

\* get_calendar_service() and _client() raise before any request is sent
ReachesProvider(e) == e.exc \notin {"FileNotFoundError", "EnvironmentError"}

\* the calls of a body, one after the other, up to the first that raises
RECURSIVE RunCalls(_, _, _)
RunCalls(calls, f, log) ==
    IF calls = <<>> THEN [raised |-> FALSE, exc |-> NoFault, log |-> log]
    ELSE IF Head(calls).provider = f.provider
         THEN [raised |-> TRUE, exc |-> f,
               log |-> IF ReachesProvider(f) THEN Append(log, Head(calls)) ELSE log]
         ELSE RunCalls(Tail(calls), f, Append(log, Head(calls)))

\* the statements inside try; find_free_slots builds day_start and day_end
\* before it fetches the events
ToolBody(tool, req, f) ==
    IF tool = "gcal_find_free_slots"
       /\ (~HourAccepted(req.numbers.earliest_hour) \/ ~HourAccepted(req.numbers.latest_hour))
    THEN [raised |-> TRUE, exc |-> HourError, log |-> <<>>]
    ELSE RunCalls(ProviderCalls(tool), f, <<>>)

\* the body without try / except: the exception leaves the tool
NoTryExcept(tool, outcome) ==
    IF outcome.raised
    THEN [kind |-> "exception", text |-> str(outcome.exc)]
    ELSE [kind |-> "result", text |-> <<>>]

\* try: ... return json.dumps(...)  except Exception as e: return f"Error ...: {e}"
TryExcept(tool, outcome) ==
    IF outcome.raised
    THEN [kind |-> "error", text |-> <<ErrorPrefix(tool)>> \o str(outcome.exc)]
    ELSE [kind |-> "result", text |-> <<>>]

\* a tool call: what the caller gets and the provider calls it made
call_tool(tool, req, f) ==
    IF HasInputModel(tool) /\ ~Validates(tool, req)
    THEN [answer |-> [tool |-> tool, req |-> req, kind |-> "rejected",
                      text |-> <<"validation error">>],
          log |-> <<>>]
    ELSE LET outcome == ToolBody(tool, req, f)
             returned == TryExcept(tool, outcome)
         IN [answer |-> [tool |-> tool, req |-> req, kind |-> returned.kind,
                         text |-> returned.text],
             log |-> outcome.log]

(***************************************************************************)
(* State machine.                                                          *)
(***************************************************************************)
NoResponse == [tool |-> "none"]

\* no get_overdue_tasks under way
NoCall ==
    [pc |-> "idle", today |-> NoDueDate, by_status |-> <<>>, by_date |-> <<>>,
     fixed |-> TRUE]

\* the day on which the model starts: 2026-02-16
FirstDay == date_fromisoformat([year |-> 2026, month |-> 2, day |-> 16])

Init ==
    /\ calendar = <<>>
    /\ response = NoResponse
    /\ clock = FirstDay
    /\ tasks = <<>>
    /\ overdue_call = NoCall
    /\ fault = NoFault
    /\ provider_log = <<>>
    /\ server = "serving"
    /\ appointments = <<>>
    /\ pending = <<>>

\* create_event: the provider stores the event; a later list shows it at a
\* place its start allows
CreateEvent(ev, max) ==
    /\ Len(calendar) < max
    /\ \E i \in 1..(Len(calendar) + 1) :
          /\ OrderedByStart(InsertAt(calendar, i, ev))
          /\ calendar' = InsertAt(calendar, i, ev)
    /\ response' = NoResponse
    /\ UNCHANGED <<notion_side, tool_side>>

\* delete_event
DeleteEvent ==
    /\ \E i \in 1..Len(calendar) : calendar' = RemoveAt(calendar, i)
    /\ response' = NoResponse
    /\ UNCHANGED <<notion_side, tool_side>>

FindFreeSlots ==
    /\ \E d \in Durations, eh \in EarliestHours, lh \in LatestHours :
          response' = gcal_find_free_slots(calendar,
                          [duration_minutes |-> d, earliest_hour |-> eh, latest_hour |-> lh])
    /\ UNCHANGED <<calendar, notion_side, tool_side>>

CreateSlotEvent == \E ev \in SlotEvents : CreateEvent(ev, MaxBusy)

NextSlots == CreateSlotEvent \/ DeleteEvent \/ FindFreeSlots

SpecSlots == Init /\ [][NextSlots]_vars

FindConflicts ==
    /\ response' = schedule_find_conflicts(calendar)
    /\ UNCHANGED <<calendar, notion_side, tool_side>>

CreateConflictEvent == \E ev \in ConflictEvents : CreateEvent(ev, MaxEvents)

NextConflicts == CreateConflictEvent \/ DeleteEvent \/ FindConflicts

SpecConflicts == Init /\ [][NextConflicts]_vars

(***************************************************************************)
(* The Tasks database changes (this server's notion_create_task and        *)
(* notion_update_task, or any other client of the workspace) and           *)
(* get_overdue_tasks runs its two queries one after the other.             *)
(***************************************************************************)
TaskIds == 1..MaxTasks

TaskStatuses == {"Not started", "Done", "Archived", "Overdue", NoStatus}

\* due dates around the first day: the day before, the day, the day after
DueDates == {date_isoformat(FirstDay + k) : k \in -1..1} \cup {NoDueDate}

\* the properties an update gives: a status, a due date, both or (NoStatus,
\* NoDueDate) neither
UpdateStatuses == {NoStatus, "Overdue", "Not started"}

UpdateDueDates == {NoDueDate, date_isoformat(FirstDay - 1)}

\* a change of the database under a running get_overdue_tasks is noted; an
\* answer already given is forgotten
CallAfterChange ==
    IF overdue_call.pc = "by_date" THEN [overdue_call EXCEPT !.fixed = FALSE] ELSE NoCall

\* create_task: the provider gives the page an id no other page has
CreateTask ==
    /\ Len(tasks) < MaxTasks
    /\ \E id \in TaskIds, status \in TaskStatuses, due \in DueDates, i \in 1..(Len(tasks) + 1) :
          /\ \A k \in 1..Len(tasks) : tasks[k].notion_id # id
          /\ \A smaller \in 1..(id - 1) : \E k \in 1..Len(tasks) : tasks[k].notion_id = smaller
          /\ OrderedByDue(InsertAt(tasks, i, Task(id, status, due)))
          /\ tasks' = InsertAt(tasks, i, Task(id, status, due))
    /\ overdue_call' = CallAfterChange
    /\ response' = NoResponse
    /\ UNCHANGED <<calendar, clock, appointments, tool_side>>

\* update_task: only the given properties change (NoStatus, NoDueDate: not given)
UpdateTask ==
    /\ \E k \in 1..Len(tasks), status \in UpdateStatuses, due \in UpdateDueDates,
          i \in 1..Len(tasks) :
          LET old == tasks[k]
              new == Task(old.notion_id,
                          IF status = NoStatus THEN old.status ELSE status,
                          IF due = NoDueDate THEN old.due_date ELSE due)
              db == InsertAt(RemoveAt(tasks, k), i, new)
          IN /\ new # old
             /\ OrderedByDue(db)
             /\ due = NoDueDate => i = k
             /\ tasks' = db
    /\ overdue_call' = CallAfterChange
    /\ response' = NoResponse
    /\ UNCHANGED <<calendar, clock, appointments, tool_side>>

\* midnight passes; an answer already given is forgotten
Tick(last) ==
    /\ clock < last
    /\ clock' = clock + 1
    /\ response' = NoResponse
    /\ overdue_call' = IF overdue_call.pc = "by_date" THEN overdue_call ELSE NoCall
    /\ UNCHANGED <<calendar, tasks, appointments, tool_side>>

\* get_overdue_tasks up to the return of its first query
StartOverdueTasks ==
    /\ overdue_call.pc # "by_date"
    /\ overdue_call' = [pc |-> "by_date", today |-> date_isoformat(clock),
                         by_status |-> overdue_by_status(tasks), by_date |-> <<>>,
                         fixed |-> TRUE]
    /\ response' = NoResponse
    /\ UNCHANGED <<calendar, clock, tasks, appointments, tool_side>>

\* the second query, the filter, the merge and the tool's answer
FinishOverdueTasks ==
    /\ overdue_call.pc = "by_date"
    /\ LET by_date == overdue_by_date(tasks, overdue_call.today)
       IN /\ overdue_call' = [overdue_call EXCEPT !.pc = "done", !.by_date = by_date]
          /\ response' = notion_get_overdue_tasks(
                              Combine(overdue_call.by_status \o by_date, {}, <<>>))
    /\ UNCHANGED <<calendar, clock, tasks, appointments, tool_side>>

NextTasks == CreateTask \/ UpdateTask \/ StartOverdueTasks \/ FinishOverdueTasks

SpecTasks == Init /\ [][NextTasks]_vars

(***************************************************************************)
(* The week overview, asked for any date of the four months of MonthTable  *)
(* whose week lies inside them, or for the current week.                   *)
(***************************************************************************)
\* the last day whose week ends inside MonthTable: Sunday 2026-03-29
LastAnchorDay == date_fromisoformat([year |-> 2026, month |-> 3, day |-> 29])

AnchorDates ==
    {date_isoformat(n) : n \in 1..LastAnchorDay} \cup {NoDueDate, MalformedDate}

\* the last day the clock of the week specification reaches
LastWeekDay == FirstDay + 7

WeekOverview ==
    /\ \E date \in AnchorDates : response' = schedule_week_overview(date, clock, tasks)
    /\ UNCHANGED <<calendar, notion_side, tool_side>>

TickWeek == Tick(LastWeekDay)

NextWeek == WeekOverview \/ TickWeek

SpecWeek == Init /\ [][NextWeek]_vars

(***************************************************************************)
(* Tool calls under every condition of the two providers.                  *)
(***************************************************************************)
Faults ==
    {NoFault}
    \cup {Failure("calendar", "HttpError", c) : c \in {"404", "403", "409", "429", "500"}}
    \cup {Failure("calendar", "ConnectionError", "none"),
          Failure("calendar", "FileNotFoundError", "none")}
    \cup {Failure("notion", "APIResponseError", c) :
              c \in {"object_not_found", "unauthorized", "validation_error",
                     "rate_limited", "internal_server_error"}}
    \cup {Failure("notion", "ConnectionError", "none"),
          Failure("notion", "EnvironmentError", "none")}

\* the field sets of the requests: complete, all fields, one unknown field
\* more, one required field less
GivenSets(tool) ==
    IF ~HasInputModel(tool) THEN {{}}
    ELSE {RequiredFields(tool), RequiredFields(tool) \cup OptionalFields(tool),
          RequiredFields(tool) \cup {"unknown_field"}}
         \cup {RequiredFields(tool) \ {x} : x \in RequiredFields(tool)}

DefaultNumbers ==
    [duration_minutes |-> 60, earliest_hour |-> 8, latest_hour |-> 20, max_results |-> 50]

\* the numbers of the requests: the ends of each accepted range and their
\* neighbours outside
NumberSets(tool) ==
    IF tool = "gcal_find_free_slots"
    THEN {[DefaultNumbers EXCEPT !.duration_minutes = d, !.earliest_hour = eh,
                                 !.latest_hour = lh] :
             d \in {14, 15, 480, 481}, eh \in {-1, 0, 23, 24}, lh \in {0, 1, 24, 25}}
    ELSE IF tool = "gcal_get_events"
    THEN {[DefaultNumbers EXCEPT !.max_results = m] : m \in {0, 1, 200, 201}}
    ELSE {DefaultNumbers}

Requests(tool) == {[given |-> g, numbers |-> n] : g \in GivenSets(tool), n \in NumberSets(tool)}

\* a provider starts or stops failing
SetFault ==
    /\ \E f \in Faults : f # fault /\ fault' = f
    /\ response' = NoResponse
    /\ provider_log' = <<>>
    /\ UNCHANGED <<calendar, notion_side, server, pending>>

\* mcp.run() hands a request to the tool's function
CallTool ==
    /\ server = "serving"
    /\ \E tool \in Tools :
          \E req \in Requests(tool) :
              LET r == call_tool(tool, req, fault)
              IN response' = r.answer /\ provider_log' = r.log
    /\ UNCHANGED <<calendar, notion_side, fault, server, pending>>

NextTools == SetFault \/ CallTool

SpecTools == Init /\ [][NextTools]_vars

(***************************************************************************)
(* The server process, server.py: the module is imported (load_dotenv,     *)
(* FastMCP(...), the four register_*_tools calls), main() runs mcp.run()   *)
(* and requests are served until the process is interrupted. The           *)
(* configuration is what the process finds when a client function asks     *)
(* for it: get_google_credentials() and _client() read it on every call.   *)
(***************************************************************************)
\* the credentials file is missing / NOTION_TOKEN is not set
ConfigFaults ==
    {Failure("calendar", "FileNotFoundError", "none"),
     Failure("notion", "EnvironmentError", "none")}

\* the process has imported server.py; main() has not run yet
InitStartup ==
    /\ calendar = <<>>
    /\ response = NoResponse
    /\ clock = FirstDay
    /\ tasks = <<>>
    /\ overdue_call = NoCall
    /\ fault \in {NoFault} \cup ConfigFaults
    /\ provider_log = <<>>
    /\ server = "imported"
    /\ appointments = <<>>
    /\ pending = <<>>

\* main(): print, then mcp.run()
main ==
    /\ server = "imported"
    /\ server' = "serving"
    /\ UNCHANGED <<calendar, response, notion_side, fault, provider_log, pending>>

\* KeyboardInterrupt ends mcp.run(); finally: print
Interrupt ==
    /\ server = "serving"
    /\ server' = "stopped"
    /\ response' = NoResponse
    /\ provider_log' = <<>>
    /\ UNCHANGED <<calendar, notion_side, fault, pending>>

NextStartup == main \/ CallTool \/ Interrupt

SpecStartup == InitStartup /\ [][NextStartup]_vars

(***************************************************************************)
(* The providers' records in full, and what each provider call does to     *)
(* them. A text is the sequence of its parts; the empty text stands for a  *)
(* field the record does not carry ("" and None both fail `if value:`).    *)
(* In the store specifications calendar, appointments and tasks hold these *)
(* records.                                                                *)
(***************************************************************************)
\* the most events the Calendar provider holds in the store and the repeat
\* specifications
MaxStored == 2

\* the most pages each Notion database holds in the store and the repeat
\* specifications
MaxPages == 1

T(s) == <<s>>

NoText == <<>>

\* os.environ.get("LOCAL_TIMEZONE", "America/Los_Angeles")
LocalTz == "America/Los_Angeles"

\* {"dateTime": value, "timeZone": tz}
DateTime(value) == [dateTime |-> value, timeZone |-> LocalTz]

\* create_event's event_body, clients/gcal.py: description and location are
\* set only when they are not empty
create_event(title, start, end, description, location) ==
    [summary |-> title, start |-> DateTime(start), end |-> DateTime(end),
     description |-> description, location |-> location]

\* a request's value for an optional field: None when not given
Param(req, k) == IF k \in DOMAIN req THEN req[k] ELSE NoText

\* the keyword arguments a tool hands to update_*: the fields that are not None
Kwargs(req, names) == [k \in (DOMAIN req \cap names) |-> req[k]]

\* a body made of the keyword arguments alone
update_event_body_from_kwargs(existing, kwargs) ==
    [summary |-> IF "title" \in DOMAIN kwargs THEN kwargs["title"] ELSE existing.summary,
     start |-> IF "start" \in DOMAIN kwargs THEN DateTime(kwargs["start"]) ELSE existing.start,
     end |-> IF "end" \in DOMAIN kwargs THEN DateTime(kwargs["end"]) ELSE existing.end,
     description |-> Param(kwargs, "description"),
     location |-> Param(kwargs, "location"),
     id |-> existing.id]

\* update_event, clients/gcal.py: the fetched event with the given fields replaced
update_event_body(existing, kwargs) ==
    [k \in DOMAIN existing |->
        IF k = "summary" /\ "title" \in DOMAIN kwargs THEN kwargs["title"]
        ELSE IF k = "start" /\ "start" \in DOMAIN kwargs THEN DateTime(kwargs["start"])
        ELSE IF k = "end" /\ "end" \in DOMAIN kwargs THEN DateTime(kwargs["end"])
        ELSE IF k = "description" /\ "description" \in DOMAIN kwargs THEN kwargs["description"]
        ELSE IF k = "location" /\ "location" \in DOMAIN kwargs THEN kwargs["location"]
        ELSE existing[k]]

EventFields == {"title", "start", "end", "description", "location"}

\* the properties of an Appointments page and of a Tasks page
AppointmentProperties ==
    {"Appointment", "Start", "End", "Type", "Status", "Canceled", "Notes",
     "GCal Event ID", "GCal Series ID", "Recurring"}

TaskProperties == {"Task name", "Task Status", "Due Date"}

AppointmentFields ==
    {"title", "start", "end", "appointment_type", "status", "canceled", "notes",
     "gcal_event_id", "gcal_series_id", "recurring"}

TaskFields == {"name", "status", "due_date"}

\* update_appointment, clients/notion.py: the property each keyword sets
AppointmentProperty(k) ==
    CASE k = "title" -> "Appointment"
      [] k = "start" -> "Start"
      [] k = "end" -> "End"
      [] k = "appointment_type" -> "Type"
      [] k = "status" -> "Status"
      [] k = "canceled" -> "Canceled"
      [] k = "notes" -> "Notes"
      [] k = "gcal_event_id" -> "GCal Event ID"
      [] k = "gcal_series_id" -> "GCal Series ID"
      [] k = "recurring" -> "Recurring"

\* update_task, clients/notion.py
TaskProperty(k) ==
    CASE k = "name" -> "Task name"
      [] k = "status" -> "Task Status"
      [] k = "due_date" -> "Due Date"

\* the properties dict update_appointment sends
update_appointment_properties(kwargs) ==
    [p \in {AppointmentProperty(k) : k \in DOMAIN kwargs} |->
        kwargs[CHOOSE k \in DOMAIN kwargs : AppointmentProperty(k) = p]]

\* the properties dict update_task sends
update_task_properties(kwargs) ==
    [p \in {TaskProperty(k) : k \in DOMAIN kwargs} |->
        kwargs[CHOOSE k \in DOMAIN kwargs : TaskProperty(k) = p]]

\* create_appointment, clients/notion.py: the optional properties are set
\* only when they are not empty
create_appointment_properties(title, start, end, appointment_type, notes, gcal_event_id, gcal_series_id, recurring) ==
    [p \in AppointmentProperties |->
        CASE p = "Appointment" -> title
          [] p = "Start" -> start
          [] p = "End" -> end
          [] p = "Type" -> appointment_type
          [] p = "Status" -> T("Scheduled")
          [] p = "Canceled" -> T("Not canceled")
          [] p = "Notes" -> notes
          [] p = "GCal Event ID" -> gcal_event_id
          [] p = "GCal Series ID" -> gcal_series_id
          [] p = "Recurring" -> recurring]

\* create_task, clients/notion.py
create_task_properties(name, due_date, status) ==
    [p \in TaskProperties |->
        CASE p = "Task name" -> name
          [] p = "Task Status" -> status
          [] p = "Due Date" -> due_date]

Page(id, properties) == [id |-> id, properties |-> properties]

\* page["url"]
PageUrl(id) == <<"https://www.notion.so/", ToString(id)>>

\* pages.update: the provider replaces the properties it is sent
PatchPage(page, properties) ==
    [page EXCEPT !.properties =
        [p \in DOMAIN page.properties |->
            IF p \in DOMAIN properties THEN properties[p] ELSE page.properties[p]]]

\* the three collections in one value
Store(cal, appts, db) == [calendar |-> cal, appointments |-> appts, tasks |-> db]

IdsOf(q) == {q[i].id : i \in 1..Len(q)}

IndexOf(q, id) == CHOOSE i \in 1..Len(q) : q[i].id = id

\* the id the provider gives a new record: one no record of the collection has
FreshId(q) == CHOOSE n \in 1..(Len(q) + 1) : n \notin IdsOf(q)

\* f"Work block for Notion task:\n{params.task_url}"
task_block_description_plain(task_url) == <<"Work block for a Notion task">>

task_block_description(task_url) == <<"Work block for Notion task:\n">> \o task_url

\* the title of a work block: a hammer sign, then the task's name
task_block_title(task_name) == <<"(hammer) ">> \o task_name

\* the event body the tool's create_event call sends
InsertBody(tool, req) ==
    IF tool = "schedule_task_block"
    THEN create_event(task_block_title(req["task_name"]), req["start"], req["end"],
                      task_block_description(req["task_url"]), NoText)
    ELSE create_event(req["title"], req["start"], req["end"],
                      Param(req, "description"), Param(req, "location"))

\* the page the tool's pages.create call asks for
CreateProperties(tool, req) ==
    IF tool = "notion_create_appointment"
    THEN create_appointment_properties(
             req["title"], req["start"], req["end"],
             IF "appointment_type" \in DOMAIN req THEN req["appointment_type"]
             ELSE T("Personal"),
             Param(req, "notes"), Param(req, "gcal_event_id"),
             Param(req, "gcal_series_id"), Param(req, "recurring"))
    ELSE create_task_properties(
             req["name"], Param(req, "due_date"),
             IF "status" \in DOMAIN req THEN req["status"] ELSE T("Not started"))

\* the collection a Notion tool works on
OnAppointments(tool) ==
    tool \in {"notion_get_appointments", "notion_create_appointment",
              "notion_update_appointment", "notion_get_appointment_by_gcal_id"}

\* the record a call names exists: events().get / update / delete and
\* pages.update answer 404 / object_not_found otherwise
Finds(call, tool, req, store) ==
    CASE call.op \in {"events.get", "events.update", "events.delete"} ->
            "event_id" \in DOMAIN req /\ req["event_id"] \in IdsOf(store.calendar)
      [] call.op = "pages.update" ->
            /\ "notion_id" \in DOMAIN req
            /\ req["notion_id"] \in
                  IdsOf(IF OnAppointments(tool) THEN store.appointments ELSE store.tasks)
      [] OTHER -> TRUE

NotFound(provider) ==
    IF provider = "calendar"
    THEN Failure("calendar", "HttpError", "404")
    ELSE Failure("notion", "APIResponseError", "object_not_found")

\* the provider's records after a call that succeeded
Apply(call, tool, req, store) ==
    CASE call.op = "events.insert" ->
            LET body == InsertBody(tool, req)
                id == FreshId(store.calendar)
            IN [store EXCEPT !.calendar =
                   Append(@, [id |-> id, summary |-> body.summary, start |-> body.start,
                              end |-> body.end, description |-> body.description,
                              location |-> body.location])]
      [] call.op = "events.update" ->
            LET i == IndexOf(store.calendar, req["event_id"])
            IN [store EXCEPT !.calendar[i] = update_event_body(@, Kwargs(req, EventFields))]
      [] call.op = "events.delete" ->
            [store EXCEPT !.calendar = RemoveAt(@, IndexOf(@, req["event_id"]))]
      [] call.op = "pages.create" /\ OnAppointments(tool) ->
            [store EXCEPT !.appointments =
                Append(@, Page(FreshId(@), CreateProperties(tool, req)))]
      [] call.op = "pages.create" /\ ~OnAppointments(tool) ->
            [store EXCEPT !.tasks = Append(@, Page(FreshId(@), CreateProperties(tool, req)))]
      [] call.op = "pages.update" /\ OnAppointments(tool) ->
            LET i == IndexOf(store.appointments, req["notion_id"])
            IN [store EXCEPT !.appointments[i] =
                   PatchPage(@, update_appointment_properties(Kwargs(req, AppointmentFields)))]
      [] call.op = "pages.update" /\ ~OnAppointments(tool) ->
            LET i == IndexOf(store.tasks, req["notion_id"])
            IN [store EXCEPT !.tasks[i] =
                   PatchPage(@, update_task_properties(Kwargs(req, TaskFields)))]
      [] OTHER -> store

\* the calls of a body against the records, up to the first that raises
RECURSIVE RunStore(_, _, _, _, _, _)
RunStore(calls, tool, req, f, store, log) ==
    IF calls = <<>> THEN [raised |-> FALSE, exc |-> NoFault, log |-> log, store |-> store]
    ELSE IF Head(calls).provider = f.provider
         THEN [raised |-> TRUE, exc |-> f,
               log |-> IF ReachesProvider(f) THEN Append(log, Head(calls)) ELSE log,
               store |-> store]
         ELSE IF ~Finds(Head(calls), tool, req, store)
              THEN [raised |-> TRUE, exc |-> NotFound(Head(calls).provider),
                    log |-> Append(log, Head(calls)), store |-> store]
              ELSE RunStore(Tail(calls), tool, req, f,
                            Apply(Head(calls), tool, req, store), Append(log, Head(calls)))

\* a tool call against the records: the answer, the calls, the records after
serve_tool(tool, req, f, store) ==
    IF HasInputModel(tool)
       /\ ~Validates(tool, [given |-> DOMAIN req, numbers |-> DefaultNumbers])
    THEN [answer |-> [tool |-> tool, req |-> req, kind |-> "rejected",
                      text |-> <<"validation error">>],
          log |-> <<>>, store |-> store]
    ELSE LET outcome == RunStore(ProviderCalls(tool), tool, req, f, store, <<>>)
             returned == TryExcept(tool, outcome)
         IN [answer |-> [tool |-> tool, req |-> req, kind |-> returned.kind,
                         text |-> returned.text],
             log |-> outcome.log, store |-> outcome.store]

(***************************************************************************)
(* Tool calls against the providers' records.                              *)
(***************************************************************************)
StoreFaults ==
    {NoFault, Failure("calendar", "HttpError", "500"),
     Failure("notion", "APIResponseError", "rate_limited")}

\* ids a request can name: those the collection can hold and one it never holds
StoreIds == 0..MaxStored

NewEvent ==
    [title |-> T("A"), start |-> T("09:00"), end |-> T("10:00"),
     description |-> T("agenda"), location |-> T("room 1")]

NewAppointment ==
    [title |-> T("Dentist"), start |-> T("09:00"), end |-> T("10:00"),
     gcal_event_id |-> T("ev1")]

NewTask == [name |-> T("Report"), due_date |-> T("2026-02-20")]

\* the requests of the store specification, the same for every state
StoreRequests(tool) ==
    CASE tool = "gcal_create_event" -> {NewEvent}
      [] tool = "schedule_task_block" ->
            {[task_notion_id |-> 1, task_name |-> T("Report"), task_url |-> PageUrl(1),
              start |-> T("13:00"), end |-> T("15:00")]}
      [] tool = "gcal_update_event" ->
            {[event_id |-> id, title |-> T("B")] : id \in StoreIds}
      [] tool = "gcal_delete_event" -> {[event_id |-> id] : id \in StoreIds}
      [] tool = "gcal_get_events" -> {[start_date |-> T("2026-02-16"), end_date |-> T("2026-02-22")]}
      [] tool = "gcal_find_free_slots" ->
            {[date |-> T("2026-02-17"), duration_minutes |-> 60]}
      [] tool = "schedule_find_conflicts" ->
            {[start_date |-> T("2026-02-16"), end_date |-> T("2026-02-22")]}
      [] tool = "notion_update_appointment" -> {[notion_id |-> 1, status |-> T("Completed")]}
      [] tool = "notion_get_appointment_by_gcal_id" -> {[gcal_event_id |-> T("ev1")]}
      [] tool = "notion_update_task" -> {[notion_id |-> 1, status |-> T("Done")]}
      [] OTHER -> {<<>>}

\* the calendar stays within its bound
WithinBound(store) == Len(store.calendar) <= MaxStored

\* the tools of the store specification: all but the two that create Notion
\* pages; the pages are the two that were created before it starts
StoreTools == Tools \ {"notion_create_appointment", "notion_create_task"}

\* an empty calendar, one appointment and one task stored by the create tools
InitStore ==
    /\ calendar = <<>>
    /\ appointments = <<Page(1, CreateProperties("notion_create_appointment", NewAppointment))>>
    /\ tasks = <<Page(1, CreateProperties("notion_create_task", NewTask))>>
    /\ response = NoResponse
    /\ clock = FirstDay
    /\ overdue_call = NoCall
    /\ fault = NoFault
    /\ provider_log = <<>>
    /\ server = "serving"
    /\ pending = <<>>

\* a provider starts or stops failing
SetStoreFault ==
    /\ \E f \in StoreFaults : f # fault /\ fault' = f
    /\ response' = NoResponse
    /\ provider_log' = <<>>
    /\ UNCHANGED <<calendar, notion_side, server, pending>>

\* a request is served: the tool's calls reach the providers
ServeTool(tool, req) ==
    /\ server = "serving"
    /\ LET r == serve_tool(tool, req, fault, Store(calendar, appointments, tasks))
       IN /\ WithinBound(r.store)
          /\ response' = r.answer
          /\ provider_log' = r.log
          /\ calendar' = r.store.calendar
          /\ appointments' = r.store.appointments
          /\ tasks' = r.store.tasks
    /\ UNCHANGED <<clock, overdue_call, fault, server, pending>>

ServeStoreTool ==
    \E tool \in StoreTools : \E req \in StoreRequests(tool) : ServeTool(tool, req)

NextStore == SetStoreFault \/ ServeStoreTool

SpecStore == InitStore /\ [][NextStore]_vars

(***************************************************************************)
(* The three update tools against one event, one appointment and one task  *)
(* that the create tools have stored.                                      *)
(***************************************************************************)
InitUpdates ==
    /\ calendar =
          Apply(Call("calendar", "events.insert"), "gcal_create_event", NewEvent,
                Store(<<>>, <<>>, <<>>)).calendar
    /\ appointments = <<Page(1, CreateProperties("notion_create_appointment", NewAppointment))>>
    /\ tasks = <<Page(1, CreateProperties("notion_create_task", NewTask))>>
    /\ response = NoResponse
    /\ clock = FirstDay
    /\ overdue_call = NoCall
    /\ fault = NoFault
    /\ provider_log = <<>>
    /\ server = "serving"
    /\ pending = <<>>

\* the record named: the stored one (1) or none (0)
UpdateIds == {0, 1}

\* no field, one field, several fields, an emptied field
EventUpdates ==
    {<<>>, [title |-> T("B")], [start |-> T("11:00"), end |-> T("12:00")],
     [description |-> T("moved"), location |-> NoText]}

AppointmentUpdates ==
    {<<>>, [status |-> T("Completed"), canceled |-> T("Canceled")],
     [notes |-> T("bring x-ray")]}

TaskUpdates ==
    {<<>>, [status |-> T("Done")],
     [name |-> T("Report v2"), status |-> T("Overdue"), due_date |-> T("2026-02-13")]}

UpdateTools == {"gcal_update_event", "notion_update_appointment", "notion_update_task"}

UpdateRequests(tool) ==
    CASE tool = "gcal_update_event" ->
            {[event_id |-> id] @@ u : id \in UpdateIds, u \in EventUpdates}
      [] tool = "notion_update_appointment" ->
            {[notion_id |-> id] @@ u : id \in UpdateIds, u \in AppointmentUpdates}
      [] tool = "notion_update_task" ->
            {[notion_id |-> id] @@ u : id \in UpdateIds, u \in TaskUpdates}

ServeUpdateTool ==
    \E tool \in UpdateTools : \E req \in UpdateRequests(tool) : ServeTool(tool, req)

NextUpdates == SetStoreFault \/ ServeUpdateTool

SpecUpdates == InitUpdates /\ [][NextUpdates]_vars

(***************************************************************************)
(* The query tools asked again and again while the providers' records and  *)
(* the date change. The process keeps nothing between two requests: each   *)
(* tool builds its return value from the locals of the call. pending holds *)
(* the last query with its answer and one query served before it, both     *)
(* with the records and the date they were answered from.                  *)
(***************************************************************************)
\* the tool returns what the call before it has returned
tool_returns_previous(previous, result) ==
    IF previous.tool = result.tool THEN previous ELSE result

\* return json.dumps(...) of this call's result
tool_returns(previous, result) == result

Query(tool, req) == [tool |-> tool, req |-> req]

\* the fields the three query tools read, with their defaults
QueryRequest(duration_minutes, date) ==
    [duration_minutes |-> duration_minutes, earliest_hour |-> 8, latest_hour |-> 20,
     date |-> date]

NoQuery == Query("none", QueryRequest(0, NoDueDate))

Observation(query, cal, db, now, answer) ==
    [query |-> query, calendar |-> cal, tasks |-> db, clock |-> now, answer |-> answer]

NoObservation == Observation(NoQuery, <<>>, <<>>, 0, NoResponse)

\* the answer of a query tool
query_tool(query, cal, db, now) ==
    CASE query.tool = "gcal_find_free_slots" -> gcal_find_free_slots(cal, query.req)
      [] query.tool = "schedule_find_conflicts" -> schedule_find_conflicts(cal)
      [] query.tool = "schedule_week_overview" ->
            schedule_week_overview(query.req.date, now, db)

RepeatQueries ==
    {Query("gcal_find_free_slots", QueryRequest(60, NoDueDate))}
    \cup {Query("schedule_find_conflicts", QueryRequest(0, NoDueDate))}
    \cup {Query("schedule_week_overview", QueryRequest(0, date)) :
             date \in {NoDueDate, date_isoformat(FirstDay - 7)}}

RepeatEvents ==
    {Event("A", Ok(At(9, 0)), Ok(At(10, 0))), Event("B", Ok(At(9, 30)), Ok(At(11, 0)))}

RepeatTasks ==
    {Task(1, "Not started", date_isoformat(FirstDay - 1)), Task(2, "Overdue", NoDueDate)}

\* the last day the clock of the repeat specification reaches
LastRepeatDay == FirstDay + 1

InitRepeat ==
    /\ calendar = <<>>
    /\ response = NoResponse
    /\ clock = FirstDay
    /\ tasks = <<>>
    /\ overdue_call = NoCall
    /\ fault = NoFault
    /\ provider_log = <<>>
    /\ server = "serving"
    /\ appointments = <<>>
    /\ pending = [last |-> NoObservation, seen |-> NoObservation]

\* an event or a task is stored, an event is deleted or midnight passes
RecordsChange ==
    /\ \/ /\ Len(calendar) < MaxStored
          /\ \E ev \in RepeatEvents, i \in 1..(Len(calendar) + 1) :
                /\ OrderedByStart(InsertAt(calendar, i, ev))
                /\ calendar' = InsertAt(calendar, i, ev)
          /\ UNCHANGED <<tasks, clock>>
       \/ /\ \E i \in 1..Len(calendar) : calendar' = RemoveAt(calendar, i)
          /\ UNCHANGED <<tasks, clock>>
       \/ /\ Len(tasks) < MaxPages
          /\ \E t \in RepeatTasks, i \in 1..(Len(tasks) + 1) :
                /\ \A k \in 1..Len(tasks) : tasks[k].notion_id # t.notion_id
                /\ OrderedByDue(InsertAt(tasks, i, t))
                /\ tasks' = InsertAt(tasks, i, t)
          /\ UNCHANGED <<calendar, clock>>
       \/ /\ clock < LastRepeatDay
          /\ clock' = clock + 1
          /\ UNCHANGED <<calendar, tasks>>
    /\ response' = NoResponse
    /\ pending' = [pending EXCEPT !.last = NoObservation]
    /\ UNCHANGED <<overdue_call, appointments, fault, provider_log, server>>

\* a query tool is called; the observation kept for later is the one of the
\* call before this one, or the one kept before
AskQuery ==
    /\ server = "serving"
    /\ \E query \in RepeatQueries, keep \in BOOLEAN :
          LET answer == tool_returns(response, query_tool(query, calendar, tasks, clock))
              obs == Observation(query, calendar, tasks, clock, answer)
          IN /\ response' = answer
             /\ pending' = [last |-> obs,
                             seen |-> IF keep /\ pending.last # NoObservation
                                      THEN pending.last ELSE pending.seen]
    /\ UNCHANGED <<calendar, notion_side, fault, provider_log, server>>

NextRepeat == RecordsChange \/ AskQuery

SpecRepeat == InitRepeat /\ [][NextRepeat]_vars

(***************************************************************************)
(* schedule_week_overview statement by statement: each fetch is started,   *)
(* the provider answers or fails, and the tool returns. The providers'     *)
(* condition changes at any moment. pending is the call under way.         *)
(***************************************************************************)
\* calendar_events = get_events(...); appointments = get_appointments(...);
\* tasks_due = get_tasks(...); overdue = get_overdue_tasks()
WeekFetches == <<"get_events", "get_appointments", "get_tasks", "get_overdue_tasks">>

FetchProvider(fetch) == IF fetch = "get_events" THEN "calendar" ELSE "notion"

NoFetch == "none"

\* every fetch is started without waiting for the one before it
next_fetch_at_once(started, returned) ==
    IF Len(started) < Len(WeekFetches) THEN WeekFetches[Len(started) + 1] ELSE NoFetch

\* the statement the body is at: the next fetch once the one before it has
\* returned
next_fetch(started, returned) ==
    IF Len(started) = Len(returned) /\ Len(started) < Len(WeekFetches)
    THEN WeekFetches[Len(started) + 1]
    ELSE NoFetch

Overview(running, started, returned, exc) ==
    [running |-> running, started |-> started, returned |-> returned, exc |-> exc]

NoOverview == Overview(FALSE, <<>>, <<>>, NoFault)

\* what the tool returns: the snapshot of the four fetches, or the except
\* branch's text
week_overview_returns(call) ==
    IF call.exc # NoFault
    THEN [tool |-> "schedule_week_overview", kind |-> "error", snapshot |-> <<>>,
          text |-> <<ErrorPrefix("schedule_week_overview")>> \o str(call.exc)]
    ELSE [tool |-> "schedule_week_overview", kind |-> "json", snapshot |-> call.returned,
          text |-> <<>>]

InitFetch ==
    /\ calendar = <<>>
    /\ response = NoResponse
    /\ clock = FirstDay
    /\ tasks = <<>>
    /\ overdue_call = NoCall
    /\ fault = NoFault
    /\ provider_log = <<>>
    /\ server = "serving"
    /\ appointments = <<>>
    /\ pending = NoOverview

\* the tool is called: the week boundaries are computed
StartWeekOverview ==
    /\ server = "serving"
    /\ ~pending.running
    /\ pending' = Overview(TRUE, <<>>, <<>>, NoFault)
    /\ response' = NoResponse
    /\ UNCHANGED <<calendar, notion_side, fault, provider_log, server>>

\* the body calls the next client function
StartFetch ==
    /\ pending.running
    /\ pending.exc = NoFault
    /\ next_fetch(pending.started, pending.returned) # NoFetch
    /\ pending' = [pending EXCEPT
                      !.started = Append(@, next_fetch(pending.started, pending.returned))]
    /\ UNCHANGED <<calendar, response, notion_side, fault, provider_log, server>>

\* the provider answers the oldest fetch under way, or the fetch raises
ReturnFetch ==
    /\ pending.running
    /\ pending.exc = NoFault
    /\ Len(pending.returned) < Len(pending.started)
    /\ LET fetch == pending.started[Len(pending.returned) + 1]
       IN pending' = IF FetchProvider(fetch) = fault.provider
                     THEN [pending EXCEPT !.exc = fault]
                     ELSE [pending EXCEPT !.returned = Append(@, fetch)]
    /\ UNCHANGED <<calendar, response, notion_side, fault, provider_log, server>>

\* return json.dumps(...) after the last fetch, or the except branch
FinishWeekOverview ==
    /\ pending.running
    /\ pending.exc # NoFault \/ Len(pending.returned) = Len(WeekFetches)
    /\ response' = week_overview_returns(pending)
    /\ pending' = [pending EXCEPT !.running = FALSE]
    /\ UNCHANGED <<calendar, notion_side, fault, provider_log, server>>

\* a provider starts or stops failing; a call under way goes on
SetFetchFault ==
    /\ \E f \in Faults : f # fault /\ fault' = f
    /\ response' = IF pending.running THEN response ELSE NoResponse
    /\ pending' = IF pending.running THEN pending ELSE NoOverview
    /\ UNCHANGED <<calendar, notion_side, provider_log, server>>

NextFetch ==
    StartWeekOverview \/ StartFetch \/ ReturnFetch \/ FinishWeekOverview \/ SetFetchFault

SpecFetch == InitFetch /\ [][NextFetch]_vars

(***************************************************************************)
(* update_event in its two provider calls, events().get and                *)
(* events().update, with another client of the same calendar writing to    *)
(* the event at any moment. pending is the call under way: the keyword     *)
(* arguments, the fetched event, and what the other client wrote since the *)
(* fetch.                                                                  *)
(***************************************************************************)
UpdateCall(stage, kwargs, existing, other) ==
    [stage |-> stage, kwargs |-> kwargs, existing |-> existing, other |-> other]

NoUpdate == UpdateCall("idle", <<>>, <<>>, <<>>)

\* the fields another client writes, and the value it writes
OtherClientKeys == {"summary", "description", "location"}

OtherClientText == T("theirs")

InitLostUpdate ==
    /\ calendar =
          Apply(Call("calendar", "events.insert"), "gcal_create_event", NewEvent,
                Store(<<>>, <<>>, <<>>)).calendar
    /\ appointments = <<>>
    /\ tasks = <<>>
    /\ response = NoResponse
    /\ clock = FirstDay
    /\ overdue_call = NoCall
    /\ fault = NoFault
    /\ provider_log = <<>>
    /\ server = "serving"
    /\ pending = NoUpdate

\* existing = service.events().get(calendarId, eventId).execute()
FetchExisting ==
    /\ server = "serving"
    /\ pending.stage # "fetched"
    /\ \E kwargs \in EventUpdates :
          pending' = UpdateCall("fetched", kwargs, calendar[1], <<>>)
    /\ response' = NoResponse
    /\ provider_log' = <<Call("calendar", "events.get")>>
    /\ UNCHANGED <<calendar, notion_side, fault, server>>

\* service.events().update(calendarId, eventId, body=existing).execute():
\* the provider replaces the event by the body
WriteBody ==
    /\ pending.stage = "fetched"
    /\ calendar' = [calendar EXCEPT ![1] = update_event_body(pending.existing, pending.kwargs)]
    /\ pending' = [pending EXCEPT !.stage = "written"]
    /\ response' = NoResponse
    /\ provider_log' = Append(provider_log, Call("calendar", "events.update"))
    /\ UNCHANGED <<notion_side, fault, server>>

\* another client of the calendar changes one text field of the event
OtherClientWrites ==
    /\ \E k \in OtherClientKeys :
          /\ calendar[1][k] # OtherClientText
          /\ calendar' = [calendar EXCEPT ![1][k] = OtherClientText]
          /\ pending' = IF pending.stage = "fetched"
                        THEN [pending EXCEPT !.other = (k :> OtherClientText) @@ @]
                        ELSE NoUpdate
    /\ response' = NoResponse
    /\ UNCHANGED <<notion_side, fault, provider_log, server>>

NextLostUpdate == FetchExisting \/ WriteBody \/ OtherClientWrites

SpecLostUpdate == InitLostUpdate /\ [][NextLostUpdate]_vars

(***************************************************************************)
(* get_overdue_tasks with the Tasks database changing between its two      *)
(* queries. pending is the set of the tasks that were overdue when the     *)
(* status query ran and have been overdue at every moment since.           *)
(***************************************************************************)
\* the docstring's overdue: status 'Overdue' or a due date in the past (the
\* second with neither Done, Archived nor Overdue as status)
OverdueIds(db, today) ==
    {db[n].notion_id : n \in {m \in 1..Len(db) :
                                 db[m].status = "Overdue" \/ IsPastDue(db[m], today)}}

RaceStatuses == {"Not started", "Overdue", "Done"}

RaceDueDates == {date_isoformat(FirstDay - 1), date_isoformat(FirstDay + 1)}

InitRace ==
    /\ calendar = <<>>
    /\ response = NoResponse
    /\ clock = FirstDay
    /\ tasks = <<>>
    /\ overdue_call = NoCall
    /\ fault = NoFault
    /\ provider_log = <<>>
    /\ server = "serving"
    /\ appointments = <<>>
    /\ pending = {}

\* create_task while no get_overdue_tasks is under way
RaceCreateTask ==
    /\ Len(tasks) <= MaxPages
    /\ overdue_call.pc # "by_date"
    /\ \E status \in RaceStatuses, due \in RaceDueDates, i \in 1..(Len(tasks) + 1) :
          LET db == InsertAt(tasks, i, Task(Len(tasks) + 1, status, due))
          IN /\ OrderedByDue(db)
             /\ tasks' = db
    /\ overdue_call' = NoCall
    /\ pending' = {}
    /\ response' = NoResponse
    /\ UNCHANGED <<calendar, clock, appointments, fault, provider_log, server>>

\* update_task of the status by this server or another client, at any moment
RaceUpdateTask ==
    /\ \E k \in 1..Len(tasks), status \in RaceStatuses :
          /\ status # tasks[k].status
          /\ tasks' = [tasks EXCEPT ![k].status = status]
    /\ overdue_call' = CallAfterChange
    /\ pending' = IF overdue_call.pc = "by_date"
                  THEN pending \cap OverdueIds(tasks', overdue_call.today)
                  ELSE {}
    /\ response' = NoResponse
    /\ UNCHANGED <<calendar, clock, appointments, fault, provider_log, server>>

\* today = ...; overdue_by_status = get_tasks(status="Overdue")
RaceStatusQuery ==
    /\ overdue_call.pc # "by_date"
    /\ overdue_call' = [pc |-> "by_date", today |-> date_isoformat(clock),
                         by_status |-> overdue_by_status(tasks), by_date |-> <<>>,
                         fixed |-> TRUE]
    /\ pending' = OverdueIds(tasks, date_isoformat(clock))
    /\ response' = NoResponse
    /\ UNCHANGED <<calendar, clock, tasks, appointments, fault, provider_log, server>>

\* overdue_by_date = get_tasks(due_before=today), the filter, the merge and
\* the tool's answer
RaceDateQuery ==
    /\ overdue_call.pc = "by_date"
    /\ LET by_date == overdue_by_date(tasks, overdue_call.today)
       IN /\ overdue_call' = [overdue_call EXCEPT !.pc = "done", !.by_date = by_date]
          /\ response' = notion_get_overdue_tasks(
                              Combine(overdue_call.by_status \o by_date, {}, <<>>))
    /\ UNCHANGED <<calendar, clock, tasks, appointments, tool_side>>

NextRace == RaceCreateTask \/ RaceUpdateTask \/ RaceStatusQuery \/ RaceDateQuery

SpecRace == InitRace /\ [][NextRace]_vars

(***************************************************************************)
(* The sync workflow of the comment in tools/schedule.py, run by callers   *)
(* of the tools: notion_get_appointment_by_gcal_id, then                   *)
(* notion_create_appointment with the gcal_event_id when the first         *)
(* reported not found. pending holds each run's position.                  *)
(***************************************************************************)
\* the runs that can be under way at once
SyncRuns == {"a", "b"}

\* get_appointment_by_gcal_id, clients/notion.py: the first result of the
\* query with the filter GCal Event ID equals gcal_event_id, or None (0)
get_appointment_by_gcal_id(appts, gcal_event_id) ==
    LET results == {i \in 1..Len(appts) : appts[i].properties["GCal Event ID"] = gcal_event_id}
    IN IF results # {} THEN CHOOSE i \in results : \A j \in results : i <= j ELSE 0

\* notion_get_appointment_by_gcal_id, tools/appointments.py: the appointment,
\* {"found": false, ...}, or the except branch's text
lookup_tool(appts, gcal_event_id, f) ==
    IF f.provider = "notion" THEN "error"
    ELSE IF get_appointment_by_gcal_id(appts, gcal_event_id) # 0 THEN "found"
    ELSE "not_found"

InitSync ==
    /\ calendar = <<>>
    /\ response = NoResponse
    /\ clock = FirstDay
    /\ tasks = <<>>
    /\ overdue_call = NoCall
    /\ fault = NoFault
    /\ provider_log = <<>>
    /\ server = "serving"
    /\ appointments = <<>>
    /\ pending = [r \in SyncRuns |-> "idle"]

\* 1. the event is found in the calendar: a run of the workflow begins
SyncBegin(r) ==
    /\ pending[r] \in {"idle", "found", "created", "error"}
    /\ pending' = [pending EXCEPT ![r] = "lookup"]
    /\ response' = NoResponse
    /\ UNCHANGED <<calendar, notion_side, fault, provider_log, server>>

\* 2. notion_get_appointment_by_gcal_id: check if already synced
SyncLookUp(r) ==
    /\ server = "serving"
    /\ pending[r] = "lookup"
    /\ pending' = [pending EXCEPT
                      ![r] = lookup_tool(appointments, NewAppointment.gcal_event_id, fault)]
    /\ response' = NoResponse
    /\ provider_log' = IF ReachesProvider(fault) \/ fault.provider # "notion"
                       THEN <<Call("notion", "data_sources.query")>> ELSE <<>>
    /\ UNCHANGED <<calendar, notion_side, fault, server>>

\* 3. if not found: notion_create_appointment with gcal_event_id
SyncCreate(r) ==
    /\ pending[r] = "not_found"
    /\ Len(appointments) <= MaxStored
    /\ LET out == serve_tool("notion_create_appointment", NewAppointment, fault,
                              Store(calendar, appointments, tasks))
       IN /\ appointments' = out.store.appointments
          /\ response' = out.answer
          /\ provider_log' = out.log
          /\ pending' = [pending EXCEPT
                            ![r] = IF out.answer.kind = "error" THEN "error" ELSE "created"]
    /\ UNCHANGED <<calendar, clock, tasks, overdue_call, fault, server>>

NextSync ==
    \/ SetStoreFault
    \/ \E r \in SyncRuns : SyncBegin(r) \/ SyncLookUp(r) \/ SyncCreate(r)

SpecSync == InitSync /\ [][NextSync]_vars

(***************************************************************************)
(* The free-slot finder's answer, read back.                               *)
(***************************************************************************)
SlotCall == response.tool = "gcal_find_free_slots"

SlotAnswer == SlotCall /\ response.kind # "error"

NSlots == IF SlotCall THEN Len(response.slots) ELSE 0

SlotStart(i) == fromisoformat(response.slots[i].start)

SlotEnd(i) == fromisoformat(response.slots[i].end)

ReqDayStart == At(response.req.earliest_hour, 0)

ReqDayEnd == At(response.req.latest_hour, 0)

ReqDuration == response.req.duration_minutes

\* the busy windows parsed from the provider's events, as [s, e)
ParsedIndexes == {i \in 1..Len(calendar) : Parses(calendar[i])}

BusyWindows == {<<calendar[i].start.t, calendar[i].end.t>> : i \in ParsedIndexes}

ProperWindows == {B \in BusyWindows : B[1] < B[2]}

Covered(t) == \E B \in BusyWindows : B[1] <= t /\ t < B[2]

SetMin(S) == CHOOSE x \in S : \A y \in S : x <= y

\* the busy-free stretch that starts at an uncovered instant g ends here
FreeEnd(g, limit) == SetMin({B[1] : B \in {X \in ProperWindows : X[1] >= g}} \cup {limit})

\* starts of the maximal busy-free intervals inside [day_start, day_end]
MaxGapStarts(day_start) ==
    {g \in {day_start} \cup {B[2] : B \in {X \in ProperWindows : X[2] > day_start}} :
        ~Covered(g)}

GapFits(g, day_end, d) == FreeEnd(g, day_end) - g >= d

\* C1: every returned slot lies inside the working-hours window:
\* slot.start >= day_start and slot.end <= day_end.
C1_SlotsInsideWindow ==
    SlotCall =>
        \A i \in 1..NSlots : SlotStart(i) >= ReqDayStart /\ SlotEnd(i) <= ReqDayEnd

\* C2: every returned slot is disjoint from every busy window parsed from the
\* day's events, overlapping and nested windows included.
C2_SlotsAvoidBusy ==
    SlotCall =>
        \A i \in 1..NSlots : \A B \in BusyWindows :
            ~(SlotStart(i) < B[2] /\ B[1] < SlotEnd(i))

\* C2 witness: a nested pair of busy windows, and a slot that starts where the
\* outer one ends.
C2_Witness ==
    /\ SlotAnswer
    /\ \E B \in ProperWindows, N \in ProperWindows :
          /\ B[1] <= N[1] /\ N[2] < B[2]
          /\ \E i \in 1..NSlots : SlotStart(i) = B[2] /\ SlotEnd(i) <= ReqDayEnd

\* C3: the returned slots are in chronological order and pairwise
\* non-overlapping: each slot ends no later than the next one starts.
C3_SlotsChronological ==
    SlotCall => \A i \in 1..(NSlots - 1) : SlotEnd(i) <= SlotStart(i + 1)

\* C4: with latest_hour <= earliest_hour the result is the empty list, and the
\* call does not fail (unless an event value is missing).
C4_EmptyWindowNoSlots ==
    (SlotCall /\ response.req.latest_hour <= response.req.earliest_hour) =>
        /\ response.slots = <<>>
        /\ response.kind = "error" => AnyParseRaises(calendar)

\* C5: when no busy-free interval of length >= duration lies inside
\* [day_start, day_end), the result is the empty list.
C5_NoGapNoSlots ==
    (SlotAnswer /\ ~\E g \in MaxGapStarts(ReqDayStart) : GapFits(g, ReqDayEnd, ReqDuration))
        => response.slots = <<>>

\* C6: for every maximal busy-free interval [g, h) inside [day_start, day_end]
\* with h - g >= duration, the result holds a slot that starts at g.
C6_EveryGapFound ==
    SlotAnswer =>
        \A g \in MaxGapStarts(ReqDayStart) :
            GapFits(g, ReqDayEnd, ReqDuration) => \E i \in 1..NSlots : SlotStart(i) = g

\* the example of C7: window 08:00-20:00, one busy window 09:00-10:00, 60 minutes
C7_Example ==
    /\ SlotCall
    /\ calendar = <<Event("A", Ok(At(9, 0)), Ok(At(10, 0)))>>
    /\ response.req = [duration_minutes |-> 60, earliest_hour |-> 8, latest_hour |-> 20]

\* C7: one duration-sized slot per found gap: every slot is exactly
\* duration_minutes long, there are at most (busy windows + 1) slots, two slots
\* are separated by a busy window when the windows are proper, and the example
\* yields [08:00,09:00) and [10:00,11:00) only.
C7_OneSlotPerGap ==
    SlotCall =>
        /\ \A i \in 1..NSlots : SlotEnd(i) - SlotStart(i) = ReqDuration
        /\ NSlots <= Cardinality(ParsedIndexes) + 1
        /\ response.count = NSlots
        /\ BusyWindows = ProperWindows =>
              \A i \in 1..NSlots, j \in 1..NSlots :
                  i < j => \E B \in ProperWindows : SlotEnd(i) <= B[1] /\ B[2] <= SlotStart(j)
        /\ C7_Example =>
              response.slots =
                  <<[start |-> [day |-> 0, hour |-> 8, minute |-> 0],
                     end |-> [day |-> 0, hour |-> 9, minute |-> 0]],
                    [start |-> [day |-> 0, hour |-> 10, minute |-> 0],
                     end |-> [day |-> 0, hour |-> 11, minute |-> 0]]>>

\* C7 witness: the example, answered with two slots.
C7_Witness == C7_Example /\ response.kind = "slots" /\ NSlots = 2

(***************************************************************************)
(* The conflict detector's answer, read back.                              *)
(***************************************************************************)
ConflictCall == response.tool = "schedule_find_conflicts"

ConflictAnswer == ConflictCall /\ response.kind = "json"

NParsed == Cardinality(ParsedIndexes)

\* the orders of the parsed events that are ascending by start
StartOrders ==
    {f \in [1..NParsed -> ParsedIndexes] :
        /\ \A a \in 1..NParsed, b \in 1..NParsed : a # b => f[a] # f[b]
        /\ \A a \in 1..(NParsed - 1) : calendar[f[a]].start.t <= calendar[f[a + 1]].start.t}

StartOf(f, k) == calendar[f[k]].start.t

EndOf(f, k) == calendar[f[k]].end.t

TitleOf(f, k) == Title(calendar[f[k]])

\* the k-th smallest member of a set of numbers
Kth(I, k) == CHOOSE i \in I : Cardinality({j \in I : j < i}) = k - 1

OverlapPairs(f) == {k \in 1..(NParsed - 1) : StartOf(f, k + 1) < EndOf(f, k)}

TightPairs(f) ==
    {k \in 1..(NParsed - 1) :
        /\ ~(StartOf(f, k + 1) < EndOf(f, k))
        /\ StartOf(f, k + 1) - EndOf(f, k) < 10}

ExpectedOverlaps(f) ==
    [n \in 1..Cardinality(OverlapPairs(f)) |->
        LET k == Kth(OverlapPairs(f), n)
        IN [event_1 |-> TitleOf(f, k), event_2 |-> TitleOf(f, k + 1),
            overlap_start |-> StartOf(f, k + 1),
            overlap_end |-> IF EndOf(f, k) <= EndOf(f, k + 1)
                            THEN EndOf(f, k) ELSE EndOf(f, k + 1)]]

\* gap_minutes in tenths of a minute
ExpectedTight(f) ==
    [n \in 1..Cardinality(TightPairs(f)) |->
        LET k == Kth(TightPairs(f), n)
        IN [event_1 |-> TitleOf(f, k), event_1_end |-> EndOf(f, k),
            event_2 |-> TitleOf(f, k + 1), event_2_start |-> StartOf(f, k + 1),
            gap_minutes |-> 10 * (StartOf(f, k + 1) - EndOf(f, k))]]

OverlapsRead ==
    [n \in 1..Len(response.overlaps) |->
        [event_1 |-> response.overlaps[n].event_1,
         event_2 |-> response.overlaps[n].event_2,
         overlap_start |-> fromisoformat(response.overlaps[n].overlap_start),
         overlap_end |-> fromisoformat(response.overlaps[n].overlap_end)]]

TightRead ==
    [n \in 1..Len(response.tight_transitions) |->
        [event_1 |-> response.tight_transitions[n].event_1,
         event_1_end |-> fromisoformat(response.tight_transitions[n].event_1_end),
         event_2 |-> response.tight_transitions[n].event_2,
         event_2_start |-> fromisoformat(response.tight_transitions[n].event_2_start),
         gap_minutes |-> response.tight_transitions[n].gap_minutes]]

LongRead ==
    [n \in 1..Len(response.long_events) |->
        [event |-> response.long_events[n].event,
         start |-> fromisoformat(response.long_events[n].start),
         end |-> fromisoformat(response.long_events[n].end)]]

\* the example of C8: A = [10:00, 11:00), B = [10:30, 11:30)
C8_Example ==
    /\ ConflictCall
    /\ calendar = <<Event("A", Ok(At(10, 0)), Ok(At(11, 0))),
                    Event("B", Ok(At(10, 30)), Ok(At(11, 30)))>>

\* C8: with the events sorted ascending by start, an overlap is reported for
\* an adjacent pair exactly when next.start < current.end, with
\* overlap_start = next.start and overlap_end = min(current.end, next.end);
\* the example gives one overlap 10:30-11:00 and all_clear = false.
C8_OverlapsOfAdjacentPairs ==
    ConflictAnswer =>
        /\ \E f \in StartOrders : OverlapsRead = ExpectedOverlaps(f)
        /\ C8_Example =>
              /\ OverlapsRead = <<[event_1 |-> "A", event_2 |-> "B",
                                   overlap_start |-> At(10, 30),
                                   overlap_end |-> At(11, 0)]>>
              /\ response.all_clear = FALSE

\* C8 witness: the example, answered.
C8_Witness == C8_Example /\ ConflictAnswer /\ Len(response.overlaps) = 1

\* the example of C9: A = [09:00, 10:00), B = [10:05, 11:00)
C9_Example ==
    /\ ConflictCall
    /\ calendar = <<Event("A", Ok(At(9, 0)), Ok(At(10, 0))),
                    Event("B", Ok(At(10, 5)), Ok(At(11, 0)))>>

\* C9: an adjacent pair that is no overlap is reported as a tight transition
\* exactly when next.start - current.end < 10 minutes, with gap_minutes that
\* gap; no pair is reported as both; the example gives gap_minutes = 5.0.
C9_TightTransitions ==
    ConflictAnswer =>
        /\ \E f \in StartOrders :
              /\ TightRead = ExpectedTight(f)
              /\ OverlapsRead = ExpectedOverlaps(f)
        /\ NParsed >= 1 =>
              Len(response.overlaps) + Len(response.tight_transitions) <= NParsed - 1
        /\ \A n \in 1..Len(response.tight_transitions) :
              /\ response.tight_transitions[n].gap_minutes >= 0
              /\ response.tight_transitions[n].gap_minutes < 100
        /\ C9_Example =>
              /\ Len(response.tight_transitions) = 1
              /\ response.tight_transitions[1].gap_minutes = 50
              /\ response.overlaps = <<>>

\* C9 witness: the example, answered with one tight transition.
C9_Witness == C9_Example /\ ConflictAnswer /\ Len(response.tight_transitions) = 1

\* what long_events must show of the parsed event at place i of the provider's list
LongShown(i) ==
    [event |-> Title(calendar[i]), start |-> calendar[i].start.t, end |-> calendar[i].end.t]

LongIndexes == {i \in ParsedIndexes : calendar[i].end.t - calendar[i].start.t > 4 * 60}

\* C10: long_events lists exactly the parsed events that last strictly more
\* than 4 hours, each once, wherever they stand and whatever pairs they are in;
\* duration_hours is the duration in hours to one decimal (5 hours: 5.0).
C10_LongEvents ==
    ConflictAnswer =>
        /\ \A x \in Range(LongRead) \cup {LongShown(i) : i \in LongIndexes} :
              Cardinality({n \in 1..Len(LongRead) : LongRead[n] = x})
                  = Cardinality({i \in LongIndexes : LongShown(i) = x})
        /\ \A n \in 1..Len(LongRead) :
              LET minutes == LongRead[n].end - LongRead[n].start
                  tenths == response.long_events[n].duration_hours
              IN /\ 10 * minutes - 60 * tenths <= 30
                 /\ 60 * tenths - 10 * minutes <= 30
                 /\ minutes = 300 => tenths = 50

\* C10 witness: a 5-hour event listed once beside an event of exactly 4 hours
\* that is not, the 5-hour event being part of an overlap.
C10_Witness ==
    /\ ConflictAnswer
    /\ Len(response.long_events) = 1
    /\ response.long_events[1].duration_hours = 50
    /\ \E i \in ParsedIndexes : calendar[i].end.t - calendar[i].start.t = 4 * 60
    /\ response.overlaps # <<>>

\* C11: all_clear is true exactly when overlaps and tight_transitions are both
\* empty; long_events never changes it.
C11_AllClear ==
    ConflictAnswer =>
        (response.all_clear = TRUE
            <=> (Len(response.overlaps) = 0 /\ Len(response.tight_transitions) = 0))

\* C11 witness: an answer that lists a long event and is all clear.
C11_Witness ==
    /\ ConflictAnswer
    /\ response.long_events # <<>>
    /\ response.all_clear = TRUE

\* the example of C12: A = [09:00, 12:00), B = [09:30, 10:00), C = [11:00, 11:30)
C12_Example ==
    /\ ConflictCall
    /\ calendar = <<Event("A", Ok(At(9, 0)), Ok(At(12, 0))),
                    Event("B", Ok(At(9, 30)), Ok(At(10, 0))),
                    Event("C", Ok(At(11, 0)), Ok(At(11, 30)))>>

\* C12: only the immediate successor in start order is compared with an event:
\* n parsed events give at most n - 1 reported pairs, each reported pair stands
\* at neighbouring places of a start order, and a pair that overlaps without
\* being neighbours is not reported; in the example A with C is not reported.
C12_OnlyAdjacentPairs ==
    ConflictAnswer =>
        /\ NParsed >= 1 =>
              /\ Len(response.overlaps) <= NParsed - 1
              /\ Len(response.tight_transitions) <= NParsed - 1
        /\ \E f \in StartOrders :
              /\ \A n \in 1..Len(OverlapsRead) :
                    \E k \in 1..(NParsed - 1) :
                        /\ OverlapsRead[n].event_1 = TitleOf(f, k)
                        /\ OverlapsRead[n].event_2 = TitleOf(f, k + 1)
                        /\ OverlapsRead[n].overlap_start = StartOf(f, k + 1)
              /\ \A n \in 1..Len(TightRead) :
                    \E k \in 1..(NParsed - 1) :
                        /\ TightRead[n].event_1 = TitleOf(f, k)
                        /\ TightRead[n].event_1_end = EndOf(f, k)
                        /\ TightRead[n].event_2 = TitleOf(f, k + 1)
                        /\ TightRead[n].event_2_start = StartOf(f, k + 1)
        /\ C12_Example =>
              /\ OverlapsRead = <<[event_1 |-> "A", event_2 |-> "B",
                                   overlap_start |-> At(9, 30),
                                   overlap_end |-> At(10, 0)]>>
              /\ \A n \in 1..Len(response.overlaps) :
                    ~(response.overlaps[n].event_1 = "A"
                        /\ response.overlaps[n].event_2 = "C")

\* C12 witness: the example, answered, A overlapping C without being reported
\* with it.
C12_Witness == C12_Example /\ ConflictAnswer /\ Len(response.overlaps) = 1

(***************************************************************************)
(* Events the spec says are skipped.                                       *)
(***************************************************************************)
\* an event whose start or end does not parse: malformed or missing
Unparsable(ev) == ~Parses(ev)

Parsable(ev) == Parses(ev)

\* the events that remain when the unparsable ones are left out
RemainingEvents == SelectSeq(calendar, Parsable)

\* C13: an event whose start or end cannot be parsed (a malformed string or a
\* missing value) is skipped, the operation with such an event succeeds, and
\* its result is the result computed from the remaining events.
C13_UnparsableSkipped ==
    SlotCall => response = gcal_find_free_slots(RemainingEvents, response.req)

\* an event that parses and ends at or before its start
Degenerate(ev) == Parses(ev) /\ ev.end.t <= ev.start.t

NotDegenerate(ev) == ~Degenerate(ev)

\* every parsed event starts and ends inside the requested window
EventsInsideWindow ==
    \A B \in BusyWindows :
        /\ ReqDayStart <= B[1] /\ B[1] <= ReqDayEnd
        /\ ReqDayStart <= B[2] /\ B[2] <= ReqDayEnd

\* C14: an event whose end is at or before its start is skipped, so the result
\* is the result computed with that event removed (stated for calendars whose
\* events all lie inside the requested window).
C14_DegenerateSkipped ==
    (SlotCall /\ EventsInsideWindow) =>
        response = gcal_find_free_slots(SelectSeq(calendar, NotDegenerate), response.req)

(***************************************************************************)
(* The overdue-task answer, read back.                                     *)
(***************************************************************************)
OverdueAnswer == response.tool = "notion_get_overdue_tasks"

\* the day get_overdue_tasks took as today, as a day number
CallDay == date_fromisoformat(overdue_call.today)

HasDueDate(t) == t.due_date # NoDueDate

DueDay(t) == date_fromisoformat(t.due_date)

\* (a) of the spec
FlaggedOverdue(t) == t.status = "Overdue"

\* (b) of the spec
PastDueOpen(t) ==
    /\ HasDueDate(t)
    /\ DueDay(t) < CallDay
    /\ t.status # "Done" /\ t.status # "Archived" /\ t.status # "Overdue"

Returned(t) == \E n \in 1..Len(response.tasks) : response.tasks[n] = t

Ids(list) == {list[n].notion_id : n \in 1..Len(list)}

\* the entries of a list whose id is not among ids, in the list's order
RECURSIVE Without(_, _)
Without(list, ids) ==
    IF list = <<>> THEN <<>>
    ELSE IF Head(list).notion_id \in ids THEN Without(Tail(list), ids)
         ELSE <<Head(list)>> \o Without(Tail(list), ids)

\* C16: the returned list never holds two entries with the same notion_id,
\* whatever the two queries returned, and keeps first-seen order: the
\* status-Overdue records in provider order, then the date-overdue records in
\* provider order that were not already present.
C16_NoDuplicateIds ==
    OverdueAnswer =>
        /\ \A i \in 1..Len(response.tasks), j \in 1..Len(response.tasks) :
              i # j => response.tasks[i].notion_id # response.tasks[j].notion_id
        /\ response.tasks = overdue_call.by_status
                               \o Without(overdue_call.by_date, Ids(overdue_call.by_status))

\* C16 witness: a record came back from both queries and the answer holds
\* two tasks.
C16_Witness ==
    /\ OverdueAnswer
    /\ Ids(overdue_call.by_status) \cap Ids(overdue_call.by_date) # {}
    /\ Len(response.tasks) = 2

(***************************************************************************)
(* The week overview's answer, read back.                                  *)
(***************************************************************************)
WeekAnswer == response.tool = "schedule_week_overview" /\ response.kind = "json"

\* the anchor of the answered request, as a day number
AnchorDay ==
    IF response.date = NoDueDate THEN clock ELSE date_fromisoformat(response.date)

WeekStart == date_fromisoformat(response.week_range.start)

WeekEnd == date_fromisoformat(response.week_range.end)

\* C17: for every anchor date week_range.start is the anchor minus its
\* weekday index (Monday = 0) days and week_range.end is start + 6 days: start
\* is a Monday, end is a Sunday, start <= anchor <= end, the range spans 7
\* days inclusive, and a Wednesday anchor gives start = anchor - 2 days.
C17_WeekBoundaries ==
    WeekAnswer =>
        /\ WeekStart = AnchorDay - weekday(AnchorDay)
        /\ WeekEnd = WeekStart + 6
        /\ weekday(WeekStart) = 0
        /\ weekday(WeekEnd) = 6
        /\ WeekStart <= AnchorDay /\ AnchorDay <= WeekEnd
        /\ Cardinality(WeekStart..WeekEnd) = 7
        /\ weekday(AnchorDay) = 2 => WeekStart = AnchorDay - 2
        /\ response.date = [year |-> 2026, month |-> 2, day |-> 18] =>
              /\ response.week_range.start = [year |-> 2026, month |-> 2, day |-> 16]
              /\ response.week_range.end = [year |-> 2026, month |-> 2, day |-> 22]

\* C17 witness: the week of Wednesday 2025-12-31, which runs from Monday
\* 2025-12-29 to Sunday 2026-01-04.
C17_Witness ==
    /\ WeekAnswer
    /\ response.date = [year |-> 2025, month |-> 12, day |-> 31]
    /\ response.week_range.start = [year |-> 2025, month |-> 12, day |-> 29]
    /\ response.week_range.end = [year |-> 2026, month |-> 1, day |-> 4]

(***************************************************************************)
(* The tool boundary's answers, read back.                                 *)
(***************************************************************************)
ToolCall == response.tool \in Tools

\* the failing provider is one the called tool calls
FaultHits ==
    \E n \in 1..Len(ProviderCalls(response.tool)) :
        ProviderCalls(response.tool)[n].provider = fault.provider

\* C18: every tool call returns a result: when a provider call inside a tool
\* fails (not found, permission denied, conflict, rate limit, network, missing
\* credential), the tool returns an error-describing string as its normal
\* result and no exception leaves the tool function.
C18_ToolAlwaysReturns ==
    ToolCall =>
        /\ response.kind \in {"rejected", "result", "error"}
        /\ (response.kind # "rejected" /\ FaultHits) =>
              /\ response.kind = "error"
              /\ Len(response.text) >= 2
              /\ response.text[1] = ErrorPrefix(response.tool)
        /\ response.kind = "result" => ~FaultHits

\* C18 witness: the week overview with NOTION_TOKEN unset: the calendar fetch
\* was made, the Notion client raised, and the tool returned its error text.
C18_Witness ==
    /\ ToolCall
    /\ response.tool = "schedule_week_overview"
    /\ fault = Failure("notion", "EnvironmentError", "none")
    /\ response.kind = "error"
    /\ provider_log = <<Call("calendar", "events.list")>>

\* the text defined for the failure's class
ClassText(f) == IF f.exc = "HttpError" THEN handle_http_error(f) ELSE handle_notion_error(f)

EndsWith(text, tail) ==
    /\ Len(text) >= Len(tail)
    /\ SubSeq(text, Len(text) - Len(tail) + 1, Len(text)) = tail

\* C19: a provider-call failure reaching a tool is turned into the message of
\* its failure class (Calendar status 404, 403, 409, 429; Notion code
\* object_not_found, unauthorized, validation_error, rate_limited; any other
\* failure the generic text), and that text is what the tool returns.
C19_ClassSpecificText ==
    (/\ ToolCall
     /\ response.kind = "error"
     /\ fault.exc \in {"HttpError", "APIResponseError"}
     /\ FaultHits
     /\ provider_log # <<>>)
        => EndsWith(response.text, ClassText(fault))

\* the request of the answered call fails the validation the spec names
FailsValidation ==
    /\ HasInputModel(response.tool)
    /\ \/ \E x \in RequiredFields(response.tool) : x \notin response.req.given
       \/ \E x \in response.req.given :
              x \notin RequiredFields(response.tool) \cup OptionalFields(response.tool)
       \/ /\ response.tool = "gcal_find_free_slots"
          /\ \/ response.req.numbers.duration_minutes < 15
             \/ response.req.numbers.duration_minutes > 480
             \/ response.req.numbers.earliest_hour < 0
             \/ response.req.numbers.earliest_hour > 23
             \/ response.req.numbers.latest_hour < 1
             \/ response.req.numbers.latest_hour > 24

\* C20: a request that fails input validation (a missing required field, an
\* unknown extra field, a duration outside the accepted range, an
\* earliest_hour outside 0..23 or a latest_hour outside 1..24) is rejected
\* before any call to the Calendar or Notion provider is made.
C20_RejectedBeforeProvider ==
    (ToolCall /\ FailsValidation) =>
        /\ response.kind = "rejected"
        /\ provider_log = <<>>

\* C20 witness: a free-slot request with latest_hour = 25 and nothing else
\* wrong, rejected with no provider call, both providers working.
C20_Witness ==
    /\ ToolCall
    /\ response.tool = "gcal_find_free_slots"
    /\ response.req.given = RequiredFields("gcal_find_free_slots")
    /\ response.req.numbers =
          [DefaultNumbers EXCEPT !.duration_minutes = 15, !.earliest_hour = 0,
                                 !.latest_hour = 25]
    /\ fault = NoFault
    /\ response.kind = "rejected"
    /\ provider_log = <<>>

\* the hours of the answered request pass the Input model
HoursValidated ==
    /\ response.req.earliest_hour \in 0..23
    /\ response.req.latest_hour \in 1..24

\* C21: for every hour pair the input validation accepts (earliest_hour in
\* 0..23, latest_hour in 1..24, 24 included) find_free_slots completes and
\* returns a list of slots: the hour values alone never make it end in an
\* error (an error needs an event value that cannot be read).
C21_AcceptedHoursNeverFail ==
    (SlotCall /\ HoursValidated /\ ~AnyParseRaises(calendar)) => response.kind # "error"

(***************************************************************************)
(* The server's start, read back.                                          *)
(***************************************************************************)
ConfigMissing == fault \in ConfigFaults

\* the answered request ran into the missing configuration
ObservesMissingConfig ==
    /\ ToolCall
    /\ response.kind = "error"
    /\ EndsWith(response.text, str(fault))

\* C22: a configuration or setup failure (missing Google credentials file,
\* missing NOTION_TOKEN) is fatal at startup: with such a configuration the
\* server never serves tool requests, and no request observes the missing
\* configuration.
C22_ConfigFailureFatalAtStartup ==
    ConfigMissing => (server # "serving" /\ ~ObservesMissingConfig)

(***************************************************************************)
(* The providers' records before and after a served request.               *)
(***************************************************************************)
\* the text holds the part
Holds(text, part) ==
    \E i \in 0..(Len(text) - Len(part)) : SubSeq(text, i + 1, i + Len(part)) = part

NotionWrites(log) ==
    \E i \in 1..Len(log) :
        log[i].provider = "notion" /\ log[i].op \in {"pages.create", "pages.update"}

\* the step serves the tool
Serves(tool) == response'.tool = tool

\* C23: a successful schedule_task_block call creates exactly one calendar
\* event, whose description holds the task's Notion URL, and issues no create
\* or update call to the Notion provider: the task record and every other
\* record are unchanged; a failed call creates no event.
C23_TaskBlockFrame ==
    [][Serves("schedule_task_block") =>
          /\ tasks' = tasks
          /\ appointments' = appointments
          /\ ~NotionWrites(provider_log')
          /\ IF response'.kind = "result"
             THEN \E i \in 1..Len(calendar') :
                     /\ RemoveAt(calendar', i) = calendar
                     /\ calendar'[i].id \notin IdsOf(calendar)
                     /\ Holds(calendar'[i].description, response'.req["task_url"])
             ELSE calendar' = calendar]_vars

\* C23 witness: a work block for task 1 was created next to an event that
\* was there before; the task is in the Tasks database as it was created.
C23_Witness ==
    /\ response.tool = "schedule_task_block"
    /\ response.kind = "result"
    /\ Len(calendar) = 2
    /\ calendar[1].summary = T("A")
    /\ Holds(calendar[2].description, PageUrl(1))
    /\ provider_log = <<Call("calendar", "events.insert")>>
    /\ Len(tasks) = 1
    /\ tasks[1] = Page(1, create_task_properties(T("Report"), T("2026-02-20"),
                                                 T("Not started")))

\* the key of the event body a field of gcal_update_event is stored under
EventKey(k) == IF k = "title" THEN "summary" ELSE k

\* the value the provider holds for a field of the event
EventValue(ev, k) == IF k \in {"start", "end"} THEN ev[k].dateTime ELSE ev[EventKey(k)]

\* q2 is q with nothing but the record at place i changed
OnlyChanged(q, q2, i) ==
    /\ Len(q2) = Len(q)
    /\ \A j \in 1..Len(q) : j # i => q2[j] = q[j]

\* the supplied fields have the supplied values, the others their old values
EventUpdated(old, new, req) ==
    /\ new.id = old.id
    /\ \A k \in EventFields :
          EventValue(new, k) = IF k \in DOMAIN req THEN req[k] ELSE EventValue(old, k)
    /\ DOMAIN req \cap {"start"} = {} => new.start = old.start
    /\ DOMAIN req \cap {"end"} = {} => new.end = old.end

PageUpdated(old, new, req, fields, Property(_)) ==
    /\ new.id = old.id
    /\ DOMAIN new.properties = DOMAIN old.properties
    /\ \A k \in fields :
          new.properties[Property(k)] =
              IF k \in DOMAIN req THEN req[k] ELSE old.properties[Property(k)]

\* C24: the update tools (gcal_update_event, notion_update_appointment,
\* notion_update_task) change only the fields supplied in the request: after
\* a successful update every omitted field has in the provider the value it
\* had before the update, every supplied field has the supplied value, and no
\* other record has changed; an update that fails changes nothing.
C24_OnlySuppliedFieldsChange ==
    [][/\ (Serves("gcal_update_event") /\ response'.kind = "result") =>
             LET i == IndexOf(calendar, response'.req["event_id"])
             IN /\ OnlyChanged(calendar, calendar', i)
                /\ EventUpdated(calendar[i], calendar'[i], response'.req)
                /\ appointments' = appointments /\ tasks' = tasks
       /\ (Serves("notion_update_appointment") /\ response'.kind = "result") =>
             LET i == IndexOf(appointments, response'.req["notion_id"])
             IN /\ OnlyChanged(appointments, appointments', i)
                /\ PageUpdated(appointments[i], appointments'[i], response'.req,
                               AppointmentFields, AppointmentProperty)
                /\ calendar' = calendar /\ tasks' = tasks
       /\ (Serves("notion_update_task") /\ response'.kind = "result") =>
             LET i == IndexOf(tasks, response'.req["notion_id"])
             IN /\ OnlyChanged(tasks, tasks', i)
                /\ PageUpdated(tasks[i], tasks'[i], response'.req, TaskFields, TaskProperty)
                /\ calendar' = calendar /\ appointments' = appointments
       /\ (\E tool \in UpdateTools : Serves(tool) /\ response'.kind # "result") =>
             /\ calendar' = calendar /\ appointments' = appointments /\ tasks' = tasks
      ]_vars

\* C24 witness: the event's description was replaced and its location
\* emptied; the title an earlier update gave and the start of the creation
\* are still there.
C24_Witness ==
    /\ response.tool = "gcal_update_event"
    /\ response.kind = "result"
    /\ response.req = [event_id |-> 1, description |-> T("moved"), location |-> NoText]
    /\ calendar[1].summary = T("B")
    /\ calendar[1].description = T("moved")
    /\ calendar[1].location = NoText
    /\ calendar[1].start = DateTime(T("09:00"))

(***************************************************************************)
(* Queries asked twice.                                                    *)
(***************************************************************************)
SameQuestion(a, b) ==
    /\ a.query # NoQuery
    /\ a.query = b.query
    /\ a.calendar = b.calendar
    /\ a.tasks = b.tasks
    /\ a.clock = b.clock

IsPrefix(p, q) == Len(p) <= Len(q) /\ SubSeq(q, 1, Len(p)) = p

\* C26: schedule_week_overview performs its provider fetches strictly one
\* after another in the order calendar events, appointments, tasks due in the
\* week, overdue tasks (each starts only after the previous one returned);
\* when any of them fails, the later fetches are not started and the result
\* is an error string that holds no part of the snapshot.
C26_FetchesInOrder ==
    /\ IsPrefix(pending.started,
                <<"get_events", "get_appointments", "get_tasks", "get_overdue_tasks">>)
    /\ IsPrefix(pending.returned, pending.started)
    /\ Len(pending.started) <= Len(pending.returned) + 1
    /\ pending.exc # NoFault => Len(pending.started) = Len(pending.returned) + 1
    /\ (response.tool = "schedule_week_overview" /\ pending.exc # NoFault) =>
          /\ response.kind = "error"
          /\ response.snapshot = <<>>
          /\ response.text = <<"Error building week overview: ">> \o str(pending.exc)
    /\ (response.tool = "schedule_week_overview" /\ pending.exc = NoFault) =>
          /\ response.kind = "json"
          /\ response.snapshot = pending.started
          /\ Len(response.snapshot) = 4

\* C26 witness: the events and the appointments were fetched, then Notion
\* started to limit the rate: the fetch of the tasks failed, the overdue tasks
\* were never asked for and the tool returned the error text.
C26_Witness ==
    /\ response.tool = "schedule_week_overview"
    /\ response.kind = "error"
    /\ pending.started = <<"get_events", "get_appointments", "get_tasks">>
    /\ pending.returned = <<"get_events", "get_appointments">>
    /\ pending.exc = Failure("notion", "APIResponseError", "rate_limited")

(***************************************************************************)
(* update_event and another client, read back.                             *)
(***************************************************************************)
Supplied(kwargs, k) == \E f \in DOMAIN kwargs : EventKey(f) = k

\* C27: update_event keeps omitted fields as they are in the provider also
\* under interleaving: if another client changes a field of the same event
\* between update_event's fetch of the existing event and its write of the
\* whole event body, and that field was not supplied to update_event, the
\* other client's change is still present after update_event completes.
C27_NoLostUpdate ==
    pending.stage = "written" =>
        \A k \in DOMAIN pending.other :
            ~Supplied(pending.kwargs, k) => calendar[1][k] = pending.other[k]

(***************************************************************************)
(* get_overdue_tasks under change, read back.                              *)
(***************************************************************************)
\* C28: get_overdue_tasks over-reports rather than under-reports also when
\* the provider changes between its two queries: a task that, at every moment
\* from the start of the status query to the end of the due-date query, is of
\* status Overdue or past its due date with a status none of Done, Archived,
\* Overdue, is present in the result.
C28_NoUnderReport ==
    (OverdueAnswer /\ overdue_call.pc = "done") =>
        \A id \in pending : \E n \in 1..Len(response.tasks) : response.tasks[n].notion_id = id

(***************************************************************************)
(* The sync workflow's appointments, read back.                            *)
(***************************************************************************)
SyncedTo(gcal_event_id) ==
    {i \in 1..Len(appointments) : appointments[i].properties["GCal Event ID"] = gcal_event_id}

\* C29: the documented sync workflow (look up the appointment by Google
\* Calendar event id, create a Notion appointment carrying that gcal_event_id
\* only when the lookup reports not found) prevents duplicate entries: after
\* any number of runs of the workflow for the same event, sequential or
\* interleaved, at most one Notion appointment exists with that
\* gcal_event_id.
C29_AtMostOneAppointment == Cardinality(SyncedTo(<<"ev1">>)) <= 1

(***************************************************************************)
(* The read-only tools' provider calls, read back.                         *)
(***************************************************************************)
\* list calendars, get events, find free slots, get appointments, get
\* appointment by gcal id, get tasks, get overdue tasks, week overview, find
\* conflicts
MarkedReadOnly ==
    {"gcal_list_calendars", "gcal_get_events", "gcal_find_free_slots",
     "notion_get_appointments", "notion_get_appointment_by_gcal_id", "notion_get_tasks",
     "notion_get_overdue_tasks", "schedule_week_overview", "schedule_find_conflicts"}

ReadingOps == {"calendarList.list", "events.list", "events.get", "data_sources.query"}

\* C30: the tools marked read-only issue only list, get and query calls to
\* the providers: no sequence of them, succeeding or failing, creates,
\* updates or deletes any calendar event, appointment or task (step by step:
\* a call of one of them leaves the three collections as they were).
C30_ReadOnlyToolsOnlyRead ==
    [][ /\ MarkedReadOnly = {tool \in Tools : readOnlyHint(tool)}
        /\ \A tool \in MarkedReadOnly :
              Serves(tool) =>
                 /\ calendar' = calendar
                 /\ appointments' = appointments
                 /\ tasks' = tasks
                 /\ \A n \in 1..Len(provider_log') : provider_log'[n].op \in ReadingOps ]_vars

\* C30 witness: the week overview was asked for with an event, an appointment
\* and a task stored; its calendar fetch succeeded and its first Notion fetch
\* failed.
C30_Witness ==
    /\ response.tool = "schedule_week_overview"
    /\ response.kind = "error"
    /\ Len(provider_log) = 2
    /\ Len(calendar) >= 1 /\ Len(appointments) >= 1 /\ Len(tasks) >= 1

====
